---- MODULE Spec2Model ----
(***************************************************************************)
(* Schema-registry-backed Avro messaging layer of windeath44.server.feed:  *)
(* the schema registry client, the Avro serializer / deserializer and the  *)
(* Avro Kafka publisher, as state machines over a small universe of        *)
(* schemas, records, subjects and registry / broker outcomes.              *)
(***************************************************************************)
EXTENDS Integers, Sequences, FiniteSets, TLC

(***************************************************************************)
(* Bounds of the model                                                     *)
(***************************************************************************)
\* The longest batch handed to publish_batch.
MaxBatch == 2

\* The number of producer objects a publisher creates (starts after a close
\* or after a failed start).
MaxProducers == 2

\* The number of messages the topics hold.
MaxLog == 3
MaxInbox == 3
MaxConsumers == 2

(***************************************************************************)
(* Python values                                                           *)
(***************************************************************************)
\* Python None in a string-valued slot (Optional[str]).
None == "None"

\* Python None in an integer-valued slot (Optional[int], e.g. _schema_id).
NoneId == -1

\* A local variable: Body with the value bound to its parameter.
With(value, Body(_)) == Body(value)

\* dict.get(key): the value, or None (here: the default handed in).
DictGet(d, k, default) == IF k \in DOMAIN d THEN d[k] ELSE default

\* A Python datum of a record field: its Python type t and its payload
\* (n for int, s for str as a sequence of code points, b for bool).
PyNone == [t |-> "null", n |-> 0, s |-> << >>, b |-> FALSE]
PyInt(i) == [t |-> "long", n |-> i, s |-> << >>, b |-> FALSE]
PyStr(cps) == [t |-> "string", n |-> 0, s |-> cps, b |-> FALSE]
PyBool(v) == [t |-> "boolean", n |-> 0, s |-> << >>, b |-> v]

\* Python ==: bool is a subclass of int (True == 1, False == 0).
PyNum(v) == IF v.t = "boolean" THEN (IF v.b THEN 1 ELSE 0) ELSE v.n
PyEq(v, w) ==
    IF v.t \in {"long", "boolean"} /\ w.t \in {"long", "boolean"}
    THEN PyNum(v) = PyNum(w)
    ELSE v = w

(***************************************************************************)
(* Schemas.  A schema text is named; avro.schema.parse turns it into the   *)
(* field list of a record schema.  A field type is a list of branches: one *)
(* branch for a plain type, several for a union.                           *)
(***************************************************************************)
Field(name, union, branches) == [name |-> name, union |-> union, branches |-> branches]

FeedV1 ==
    << Field("memorialId", FALSE, <<"long">>),
       Field("content", FALSE, <<"string">>),
       Field("metadata", TRUE, <<"null", "string">>) >>

FeedV2 ==
    << Field("memorialId", FALSE, <<"long">>),
       Field("deleted", FALSE, <<"boolean">>),
       Field("writerId", TRUE, <<"null", "long">>) >>

Schemas == {"FeedV1", "FeedV2"}

\* avro.schema.parse(schema_json)
AvroParse(schema) == IF schema = "FeedV1" THEN FeedV1 ELSE FeedV2

FieldNames(fields) == {fields[i].name : i \in 1..Len(fields)}

(***************************************************************************)
(* Avro binary encoding (avro.io.BinaryEncoder / DatumWriter).             *)
(***************************************************************************)
\* zig-zag: (n << 1) ^ (n >> 63)
ZigZag(n) == IF n >= 0 THEN 2 * n ELSE -2 * n - 1

RECURSIVE Varint(_)
\* variable-length base-128, low group first, high bit = continuation
Varint(u) == IF u < 128 THEN <<u>> ELSE <<(u % 128) + 128>> \o Varint(u \div 128)

write_long(n) == Varint(ZigZag(n))

RECURSIVE Utf8Encode(_)
\* str.encode("utf-8") for code points below 2048
Utf8Encode(cps) ==
    IF cps = << >> THEN << >>
    ELSE LET c == Head(cps) IN
         (IF c < 128 THEN <<c>> ELSE <<192 + (c \div 64), 128 + (c % 64)>>)
            \o Utf8Encode(Tail(cps))

write_utf8(cps) == LET bs == Utf8Encode(cps) IN write_long(Len(bs)) \o bs

write_boolean(b) == IF b THEN <<1>> ELSE <<0>>

\* validate(schema, datum) of a primitive schema
ValidPrimitive(type, datum) ==
    CASE type = "null" -> datum.t = "null"
      [] type = "boolean" -> datum.t = "boolean"
      [] type = "long" -> datum.t \in {"long", "boolean"}
      [] type = "string" -> datum.t = "string"
      [] OTHER -> FALSE

ValidField(f, datum) == \E i \in 1..Len(f.branches) : ValidPrimitive(f.branches[i], datum)

\* RecordSchema validation: a dict with no key outside the schema's fields
\* whose every field (datum.get(name), None when missing) fits its type.
AvroValidate(fields, data) ==
    /\ DOMAIN data \subseteq FieldNames(fields)
    /\ \A i \in 1..Len(fields) : ValidField(fields[i], DictGet(data, fields[i].name, PyNone))

write_primitive(type, datum) ==
    CASE type = "null" -> << >>
      [] type = "boolean" -> write_boolean(datum.b)
      [] type = "long" -> write_long(PyNum(datum))
      [] type = "string" -> write_utf8(datum.s)
      [] OTHER -> << >>

\* write_union: index of the first branch the datum fits, then the datum
UnionIndex(f, datum) ==
    CHOOSE i \in 1..Len(f.branches) :
        /\ ValidPrimitive(f.branches[i], datum)
        /\ \A j \in 1..(i - 1) : ~ValidPrimitive(f.branches[j], datum)

write_field(f, datum) ==
    IF f.union
    THEN LET i == UnionIndex(f, datum) IN write_long(i - 1) \o write_primitive(f.branches[i], datum)
    ELSE write_primitive(f.branches[1], datum)

RECURSIVE write_record(_, _, _)
\* write_record: the fields in schema order, from field number i on
write_record(fields, data, i) ==
    IF i > Len(fields) THEN << >>
    ELSE write_field(fields[i], DictGet(data, fields[i].name, PyNone))
            \o write_record(fields, data, i + 1)

(***************************************************************************)
(* Avro binary decoding (avro.io.BinaryDecoder / DatumReader).  A reader   *)
(* result is [ok, v, pos]: pos is the index of the next unread byte.       *)
(***************************************************************************)
ReadFail == [ok |-> FALSE, v |-> PyNone, pos |-> 0]

RECURSIVE read_varint(_, _, _, _)
\* read_long's loop: n |= (b & 0x7F) << shift while the high bit is set
read_varint(buf, pos, acc, mult) ==
    IF pos > Len(buf) THEN [ok |-> FALSE, n |-> 0, pos |-> pos]
    ELSE LET b == buf[pos]
             acc2 == acc + (b % 128) * mult
         IN IF b >= 128 THEN read_varint(buf, pos + 1, acc2, mult * 128)
            ELSE [ok |-> TRUE, n |-> acc2, pos |-> pos + 1]

\* (n >> 1) ^ -(n & 1)
UnZigZag(u) == IF u % 2 = 0 THEN u \div 2 ELSE -((u + 1) \div 2)

read_long(buf, pos) ==
    [read_varint(buf, pos, 0, 1) EXCEPT !.n = UnZigZag(@)]

RECURSIVE Utf8Decode(_)
\* bytes.decode("utf-8") for one- and two-byte sequences; [ok, cps]
Utf8Decode(bs) ==
    IF bs = << >> THEN [ok |-> TRUE, cps |-> << >>]
    ELSE LET b == Head(bs) IN
         IF b < 128
         THEN [Utf8Decode(Tail(bs)) EXCEPT !.cps = <<b>> \o @]
         ELSE IF b >= 194 /\ b < 224 /\ Len(bs) >= 2 /\ bs[2] >= 128 /\ bs[2] < 192
         THEN [Utf8Decode(Tail(Tail(bs))) EXCEPT
                   !.cps = <<(b - 192) * 64 + (bs[2] - 128)>> \o @]
         ELSE [ok |-> FALSE, cps |-> << >>]

read_utf8(buf, pos) ==
    With(read_long(buf, pos), LAMBDA l :
        IF ~l.ok \/ l.n < 0 \/ l.pos + l.n - 1 > Len(buf) THEN ReadFail
        ELSE With(Utf8Decode(SubSeq(buf, l.pos, l.pos + l.n - 1)), LAMBDA d :
                 IF d.ok THEN [ok |-> TRUE, v |-> PyStr(d.cps), pos |-> l.pos + l.n]
                 ELSE ReadFail))

read_primitive(type, buf, pos) ==
    CASE type = "null" -> [ok |-> TRUE, v |-> PyNone, pos |-> pos]
      [] type = "boolean" ->
            IF pos > Len(buf) THEN ReadFail
            ELSE [ok |-> TRUE, v |-> PyBool(buf[pos] = 1), pos |-> pos + 1]
      [] type = "long" ->
            With(read_long(buf, pos), LAMBDA l :
                IF l.ok THEN [ok |-> TRUE, v |-> PyInt(l.n), pos |-> l.pos] ELSE ReadFail)
      [] type = "string" -> read_utf8(buf, pos)
      [] OTHER -> ReadFail

\* read_union: the branch index, then the datum of that branch
read_field(f, buf, pos) ==
    IF f.union
    THEN With(read_long(buf, pos), LAMBDA l :
             IF ~l.ok \/ l.n < 0 \/ l.n >= Len(f.branches) THEN ReadFail
             ELSE read_primitive(f.branches[l.n + 1], buf, l.pos))
    ELSE read_primitive(f.branches[1], buf, pos)

RECURSIVE read_record(_, _, _, _, _)
\* read_record: one dict entry per schema field, in schema order; [ok, data]
read_record(fields, buf, pos, i, out) ==
    IF i > Len(fields) THEN [ok |-> TRUE, data |-> out]
    ELSE With(read_field(fields[i], buf, pos), LAMBDA r :
             IF ~r.ok THEN [ok |-> FALSE, data |-> << >>]
             ELSE read_record(fields, buf, r.pos, i + 1, out @@ (fields[i].name :> r.v)))

(***************************************************************************)
(* The schema registry (external service) as the client sees it over HTTP. *)
(* regVersions[subject] is the list of schema IDs registered under the     *)
(* subject, oldest first; regIds is the set of IDs the registry resolves.  *)
(* registryMode is how it answers: "up", "reject_post" (non-200 on every   *)
(* POST), "down" (no connection).                                          *)
(***************************************************************************)
Topics == {"memorial-vectorizing-response", "memorial-vector-delete-response"}

\* f"{topic}-value"
TopicSubject(topic) == topic \o "-value"

Subjects == {TopicSubject(t) : t \in Topics} \cup {"explicit-subject", "default-subject"}

\* The modes that differ for the codecs, which only read from the registry
\* or register once.
CodecRegistryModes == {"up", "down"}

\* The ID the registry mints for a schema text: one ID per distinct schema.
RegistryIdFor(schema) == IF schema = "FeedV1" THEN 258 ELSE 16909060

RegistrySchemaOf(id) == CHOOSE s \in Schemas : RegistryIdFor(s) = id

SeqContains(seq, x) == \E i \in 1..Len(seq) : seq[i] = x

\* POST /subjects/{subject}/versions on a registry that accepts it: the
\* same schema under the same subject again yields the existing ID and no
\* new version.
RegistryPost(versions, subject, schema) ==
    LET id == RegistryIdFor(schema) IN
    IF SeqContains(versions[subject], id) THEN versions
    ELSE [versions EXCEPT ![subject] = Append(@, id)]

\* The outcome of a request under a registry mode: an HTTP status, or the
\* exception aiohttp raises.  "non200" is a 4xx or 5xx status.  A registry
\* in mode "created" accepts a POST and answers 201; one in mode "timeout"
\* does not answer within ClientTimeout(total=timeout), for which aiohttp
\* raises asyncio.TimeoutError, which is not an aiohttp.ClientError.
HttpOutcome(mode, method, found) ==
    CASE mode = "down" -> "ClientError"
      [] mode = "timeout" -> "TimeoutError"
      [] mode = "reject_post" /\ method = "POST" -> "non200"
      [] mode = "created" /\ method = "POST" -> "201"
      [] OTHER -> IF found THEN "200" ELSE "non200"

\* The statuses of the 2xx class among the outcomes.
Http2xx == {"200", "201"}

\* What a client method raises for an outcome other than status 200:
\* Exception from its else branch, and the transport's exception as it is
\* (except aiohttp.ClientError: raise).
HttpFailure(status) ==
    IF status \in {"ClientError", "TimeoutError"} THEN status ELSE "Exception"

(***************************************************************************)
(* SchemaRegistryClient: [session, _schema_cache, _id_cache].              *)
(***************************************************************************)
SchemaMetadata(schema_id, schema, subject, version) ==
    [schema_id |-> schema_id, schema |-> schema, subject |-> subject, version |-> version]

NoMetadata == SchemaMetadata(NoneId, None, None, NoneId)

\* SchemaRegistryClient.__init__
NewClient == [session |-> "none", _schema_cache |-> << >>, _id_cache |-> << >>]

\* A slot that holds no client (Optional[SchemaRegistryClient] = None).
NoClient == [session |-> "absent", _schema_cache |-> << >>, _id_cache |-> << >>]

Client_ensure_session(cl) ==
    IF cl.session \in {"none", "closed"} THEN [cl EXCEPT !.session = "open"] ELSE cl

Client_close(cl) ==
    IF cl.session = "open" THEN [cl EXCEPT !.session = "closed"] ELSE cl

\* The result of a client call: the client and registry after it, the
\* exception raised ("None" when it returned), the returned value and the
\* number of HTTP requests issued.
ClientResult(cl, versions, ids, exc, id, meta, schema, reqs) ==
    [cl |-> cl, versions |-> versions, ids |-> ids, exc |-> exc,
     id |-> id, meta |-> meta, schema |-> schema, reqs |-> reqs]

\* The parts of the message of the Exception register_schema raises for a
\* status other than 200: f"Failed to register schema: {error_msg}" with
\* error_msg = await response.text().
Client_register_schema_message(status, body) == <<"Failed to register schema: ", body>>

\* A register_schema that caches the subject's metadata only.
Client_register_schema_NoIdCache(cl, versions, ids, mode, subject, schema) ==
    IF HttpOutcome(mode, "POST", TRUE) = "200"
    THEN ClientResult(
             [Client_ensure_session(cl) EXCEPT !._schema_cache =
                 [s \in (DOMAIN @) \cup {subject} |->
                     IF s = subject
                     THEN SchemaMetadata(RegistryIdFor(schema), schema, subject, -1)
                     ELSE @[s]]],
             RegistryPost(versions, subject, schema), ids \cup {RegistryIdFor(schema)},
             "None", RegistryIdFor(schema), NoMetadata, None, 1)
    ELSE ClientResult(Client_ensure_session(cl), versions, ids,
                      HttpFailure(HttpOutcome(mode, "POST", TRUE)), NoneId, NoMetadata, None, 1)

Client_register_schema(cl, versions, ids, mode, subject, schema) ==
    LET c1 == Client_ensure_session(cl)
        status == HttpOutcome(mode, "POST", TRUE)
        id == RegistryIdFor(schema)
    IN IF status = "200"
       THEN ClientResult(
                [c1 EXCEPT !._schema_cache =
                               [s \in (DOMAIN @) \cup {subject} |->
                                   IF s = subject THEN SchemaMetadata(id, schema, subject, -1) ELSE @[s]],
                           !._id_cache =
                               [i \in (DOMAIN @) \cup {id} |-> IF i = id THEN schema ELSE @[i]]],
                RegistryPost(versions, subject, schema), ids \cup {id},
                "None", id, NoMetadata, None, 1)
       ELSE ClientResult(c1,
                IF status \in Http2xx THEN RegistryPost(versions, subject, schema) ELSE versions,
                IF status \in Http2xx THEN ids \cup {id} ELSE ids,
                HttpFailure(status),
                NoneId, NoMetadata, None, 1)

\* A lookup that logs a failed request and returns no schema.
Client_get_schema_by_id_SwallowsError(cl, versions, ids, mode, schema_id) ==
    IF schema_id \in DOMAIN cl._id_cache
    THEN ClientResult(cl, versions, ids, "None", schema_id, NoMetadata, cl._id_cache[schema_id], 0)
    ELSE IF HttpOutcome(mode, "GET", schema_id \in ids) = "200"
    THEN ClientResult(
             [Client_ensure_session(cl) EXCEPT !._id_cache =
                 [i \in (DOMAIN @) \cup {schema_id} |->
                     IF i = schema_id THEN RegistrySchemaOf(schema_id) ELSE @[i]]],
             versions, ids, "None", schema_id, NoMetadata, RegistrySchemaOf(schema_id), 1)
    ELSE ClientResult(Client_ensure_session(cl), versions, ids, "None", NoneId, NoMetadata,
                      None, 1)

\* A lookup that returns the registry's answer without caching it.
Client_get_schema_by_id_NoCache(cl, versions, ids, mode, schema_id) ==
    IF schema_id \in DOMAIN cl._id_cache
    THEN ClientResult(cl, versions, ids, "None", schema_id, NoMetadata, cl._id_cache[schema_id], 0)
    ELSE IF HttpOutcome(mode, "GET", schema_id \in ids) = "200"
    THEN ClientResult(Client_ensure_session(cl), versions, ids, "None", schema_id, NoMetadata,
                      RegistrySchemaOf(schema_id), 1)
    ELSE ClientResult(Client_ensure_session(cl), versions, ids,
                      HttpFailure(HttpOutcome(mode, "GET", schema_id \in ids)),
                      NoneId, NoMetadata, None, 1)

Client_get_schema_by_id(cl, versions, ids, mode, schema_id) ==
    IF schema_id \in DOMAIN cl._id_cache
    THEN ClientResult(cl, versions, ids, "None", schema_id, NoMetadata, cl._id_cache[schema_id], 0)
    ELSE LET c1 == Client_ensure_session(cl)
             status == HttpOutcome(mode, "GET", schema_id \in ids)
         IN IF status = "200"
            THEN LET schema == RegistrySchemaOf(schema_id) IN
                 ClientResult(
                     [c1 EXCEPT !._id_cache =
                         [i \in (DOMAIN @) \cup {schema_id} |-> IF i = schema_id THEN schema ELSE @[i]]],
                     versions, ids, "None", schema_id, NoMetadata, schema, 1)
            ELSE ClientResult(c1, versions, ids,
                     HttpFailure(status),
                     NoneId, NoMetadata, None, 1)

\* The metadata of the latest version the registry holds under a subject.
RegistryLatest(versions, subject) ==
    With(versions[subject][Len(versions[subject])], LAMBDA id :
        SchemaMetadata(id, RegistrySchemaOf(id), subject, Len(versions[subject])))

\* A get_latest_schema that asks the registry on every call.
Client_get_latest_schema_IgnoresCache(cl, versions, ids, mode, subject) ==
    IF HttpOutcome(mode, "GET", versions[subject] # << >>) = "200"
    THEN ClientResult(
             [Client_ensure_session(cl) EXCEPT !._schema_cache =
                 [s \in (DOMAIN @) \cup {subject} |->
                     IF s = subject THEN RegistryLatest(versions, subject) ELSE @[s]]],
             versions, ids, "None", NoneId, RegistryLatest(versions, subject), None, 1)
    ELSE ClientResult(Client_ensure_session(cl), versions, ids,
                      HttpFailure(HttpOutcome(mode, "GET", versions[subject] # << >>)),
                      NoneId, NoMetadata, None, 1)

Client_get_latest_schema(cl, versions, ids, mode, subject) ==
    IF subject \in DOMAIN cl._schema_cache
    THEN ClientResult(cl, versions, ids, "None", NoneId, cl._schema_cache[subject], None, 0)
    ELSE LET c1 == Client_ensure_session(cl)
             status == HttpOutcome(mode, "GET", versions[subject] # << >>)
         IN IF status = "200"
            THEN LET n == Len(versions[subject])
                     id == versions[subject][n]
                     metadata == SchemaMetadata(id, RegistrySchemaOf(id), subject, n)
                 IN ClientResult(
                        [c1 EXCEPT !._schema_cache =
                            [s \in (DOMAIN @) \cup {subject} |-> IF s = subject THEN metadata ELSE @[s]]],
                        versions, ids, "None", NoneId, metadata, None, 1)
            ELSE ClientResult(c1, versions, ids,
                     HttpFailure(status),
                     NoneId, NoMetadata, None, 1)

\* The result of check_compatibility and of delete_subject: the client and
\* registry after the call, the exception raised, the value returned
\* ("None" when it raised) and the number of requests.
ClientReturn(cl, versions, exc, ret, reqs) ==
    [cl |-> cl, versions |-> versions, exc |-> exc, ret |-> ret, reqs |-> reqs]

\* check_compatibility; is_compatible is the registry's verdict.
Client_check_compatibility(cl, versions, mode, subject, schema, is_compatible) ==
    With(HttpOutcome(mode, "POST", versions[subject] # << >>), LAMBDA status :
        CASE status = "200" ->
                 ClientReturn(Client_ensure_session(cl), versions, "None", is_compatible, 1)
          [] status = "TimeoutError" ->
                 ClientReturn(Client_ensure_session(cl), versions, "TimeoutError", "None", 1)
          [] OTHER ->
                 ClientReturn(Client_ensure_session(cl), versions, "None", FALSE, 1))

\* DELETE /subjects/{subject} on a registry that accepts it: the subject's
\* versions are gone; schema IDs stay resolvable.
RegistryDelete(versions, subject) == [versions EXCEPT ![subject] = << >>]

\* A delete_subject that leaves the subject's cached metadata in place.
Client_delete_subject_KeepsCache(cl, versions, mode, subject) ==
    With(HttpOutcome(mode, "DELETE", versions[subject] # << >>), LAMBDA status :
        IF status = "200"
        THEN ClientReturn(Client_ensure_session(cl), RegistryDelete(versions, subject),
                          "None", versions[subject], 1)
        ELSE ClientReturn(Client_ensure_session(cl), versions, HttpFailure(status), "None", 1))

\* delete_subject; it returns the deleted versions.
Client_delete_subject(cl, versions, mode, subject) ==
    With(HttpOutcome(mode, "DELETE", versions[subject] # << >>), LAMBDA status :
        IF status = "200"
        THEN ClientReturn(
                 [Client_ensure_session(cl) EXCEPT !._schema_cache =
                     [s \in (DOMAIN @) \ {subject} |-> @[s]]],
                 RegistryDelete(versions, subject), "None", versions[subject], 1)
        ELSE ClientReturn(Client_ensure_session(cl), versions, HttpFailure(status), "None", 1))

\* clear_cache
Client_clear_cache(cl) == [cl EXCEPT !._schema_cache = << >>, !._id_cache = << >>]

(***************************************************************************)
(* AvroSerializer: [subject, schema_str, auto_register, _schema_id,        *)
(* _avro_schema].  It works on the registry client it was built with.      *)
(***************************************************************************)
AvroSerializer_MAGIC_BYTE == 0

\* AvroSerializer.__init__
NewSerializer(subject, schema, auto_register) ==
    [subject |-> subject, schema_str |-> schema, auto_register |-> auto_register,
     _schema_id |-> NoneId, _avro_schema |-> None]

\* struct.pack('b', x): one signed byte
PackSignedByte(x) == <<(x + 256) % 256>>

\* struct.pack('<I', x): four bytes, least significant first
PackLittleEndianU32(x) ==
    << x % 256, (x \div 256) % 256, (x \div 65536) % 256, (x \div 16777216) % 256 >>

\* struct.pack('>I', x): four bytes, most significant first
PackBigEndianU32(x) ==
    << (x \div 16777216) % 256, (x \div 65536) % 256, (x \div 256) % 256, x % 256 >>

\* The result of a codec call: the codec object, the client and the
\* registry after it, the exception raised ("None" when it returned), the
\* bytes or record returned, and the number of HTTP requests issued.
CodecResult(obj, cl, versions, ids, exc, bytes, isNone, record, reqs) ==
    [obj |-> obj, cl |-> cl, versions |-> versions, ids |-> ids, exc |-> exc,
     bytes |-> bytes, isNone |-> isNone, record |-> record, reqs |-> reqs]

\* A serializer that resolves its schema on every call.
Serializer_ensure_schema_registered_EveryCall(ser, cl, versions, ids, mode) ==
    IF ser.schema_str = None
    THEN With(Client_get_latest_schema(cl, versions, ids, mode, ser.subject), LAMBDA r :
             IF r.exc # "None"
             THEN CodecResult(ser, r.cl, r.versions, r.ids, "ValueError", << >>, FALSE, << >>,
                              r.reqs)
             ELSE CodecResult(
                      [ser EXCEPT !.schema_str = r.meta.schema,
                                  !._schema_id = r.meta.schema_id,
                                  !._avro_schema = r.meta.schema],
                      r.cl, r.versions, r.ids, "None", << >>, FALSE, << >>, r.reqs))
    ELSE IF ser.auto_register
    THEN With(Client_register_schema(cl, versions, ids, mode, ser.subject, ser.schema_str),
              LAMBDA r :
             IF r.exc # "None"
             THEN CodecResult(ser, r.cl, r.versions, r.ids, r.exc, << >>, FALSE, << >>, r.reqs)
             ELSE CodecResult(
                      [ser EXCEPT !._schema_id = r.id, !._avro_schema = ser.schema_str],
                      r.cl, r.versions, r.ids, "None", << >>, FALSE, << >>, r.reqs))
    ELSE CodecResult(ser, cl, versions, ids, "ValueError", << >>, FALSE, << >>, 0)

\* A serializer that registers a supplied schema whatever auto_register says.
Serializer_ensure_schema_registered_AlwaysRegisters(ser, cl, versions, ids, mode) ==
    IF ser._schema_id # NoneId
    THEN CodecResult(ser, cl, versions, ids, "None", << >>, FALSE, << >>, 0)
    ELSE With(Client_register_schema(cl, versions, ids, mode, ser.subject,
                                     IF ser.schema_str = None THEN "FeedV1" ELSE ser.schema_str),
              LAMBDA r :
             IF r.exc # "None"
             THEN CodecResult(ser, r.cl, r.versions, r.ids, r.exc, << >>, FALSE, << >>, r.reqs)
             ELSE CodecResult(
                      [ser EXCEPT !._schema_id = r.id,
                                  !._avro_schema = IF ser.schema_str = None THEN "FeedV1"
                                                   ELSE ser.schema_str],
                      r.cl, r.versions, r.ids, "None", << >>, FALSE, << >>, r.reqs))

Serializer_ensure_schema_registered(ser, cl, versions, ids, mode) ==
    IF ser._schema_id # NoneId
    THEN CodecResult(ser, cl, versions, ids, "None", << >>, FALSE, << >>, 0)
    ELSE IF ser.schema_str = None
    THEN With(Client_get_latest_schema(cl, versions, ids, mode, ser.subject), LAMBDA r :
             IF r.exc # "None"
             THEN CodecResult(ser, r.cl, r.versions, r.ids, "ValueError", << >>, FALSE, << >>,
                              r.reqs)
             ELSE CodecResult(
                      [ser EXCEPT !.schema_str = r.meta.schema,
                                  !._schema_id = r.meta.schema_id,
                                  !._avro_schema = r.meta.schema],
                      r.cl, r.versions, r.ids, "None", << >>, FALSE, << >>, r.reqs))
    ELSE IF ser.auto_register
    THEN With(Client_register_schema(cl, versions, ids, mode, ser.subject, ser.schema_str),
              LAMBDA r :
             IF r.exc # "None"
             THEN CodecResult(ser, r.cl, r.versions, r.ids, r.exc, << >>, FALSE, << >>, r.reqs)
             ELSE CodecResult(
                      [ser EXCEPT !._schema_id = r.id, !._avro_schema = ser.schema_str],
                      r.cl, r.versions, r.ids, "None", << >>, FALSE, << >>, r.reqs))
    ELSE CodecResult(ser, cl, versions, ids, "ValueError", << >>, FALSE, << >>, 0)

\* The wire envelope written by serialize and __call__: magic byte, schema
\* ID, Avro body.
SerializerEnvelope(ser, data) ==
    PackSignedByte(AvroSerializer_MAGIC_BYTE)
        \o PackBigEndianU32(ser._schema_id)
        \o write_record(AvroParse(ser._avro_schema), data, 1)

\* A serialize that logs a record the schema rejects and returns the header.
Serializer_serialize_Swallows(ser, cl, versions, ids, mode, data) ==
    With(Serializer_ensure_schema_registered(ser, cl, versions, ids, mode), LAMBDA e :
        IF e.exc # "None" THEN e
        ELSE IF ~AvroValidate(AvroParse(e.obj._avro_schema), data)
        THEN [e EXCEPT !.bytes = PackSignedByte(AvroSerializer_MAGIC_BYTE)
                                    \o PackBigEndianU32(e.obj._schema_id)]
        ELSE [e EXCEPT !.bytes = SerializerEnvelope(e.obj, data)])

Serializer_serialize(ser, cl, versions, ids, mode, data) ==
    With(Serializer_ensure_schema_registered(ser, cl, versions, ids, mode), LAMBDA e :
        IF e.exc # "None" THEN e
        ELSE IF ~AvroValidate(AvroParse(e.obj._avro_schema), data)
        THEN [e EXCEPT !.exc = "AvroTypeException"]
        ELSE [e EXCEPT !.bytes = SerializerEnvelope(e.obj, data)])

\* AvroSerializer.__call__: the synchronous interface, no registry access
Serializer_call(ser, cl, versions, ids, data) ==
    IF ser._schema_id = NoneId \/ ser._avro_schema = None
    THEN CodecResult(ser, cl, versions, ids, "RuntimeError", << >>, FALSE, << >>, 0)
    ELSE IF ~AvroValidate(AvroParse(ser._avro_schema), data)
    THEN CodecResult(ser, cl, versions, ids, "AvroTypeException", << >>, FALSE, << >>, 0)
    ELSE CodecResult(ser, cl, versions, ids, "None", SerializerEnvelope(ser, data), FALSE, << >>, 0)

(***************************************************************************)
(* AvroDeserializer: [_schema_cache], schema ID -> parsed schema.  An      *)
(* input is [none, bytes]: none for Python None.                           *)
(***************************************************************************)
AvroDeserializer_MAGIC_BYTE == 0

\* AvroDeserializer.__init__
NewDeserializer == [_schema_cache |-> << >>]

\* bytes, and Python None in a bytes-valued slot
Buffer(bytes) == [none |-> FALSE, bytes |-> bytes]
NoneBuffer == [none |-> TRUE, bytes |-> << >>]

\* struct.unpack('b', ...): one signed byte
UnpackSignedByte(b) == IF b >= 128 THEN b - 256 ELSE b

\* struct.unpack('<I', ...)
UnpackLittleEndianU32(bs) == ((bs[4] * 256 + bs[3]) * 256 + bs[2]) * 256 + bs[1]

\* A magic byte check that takes the byte for rejected only when it is above
\* MAGIC_BYTE.
MagicByteAbove(bytes) == UnpackSignedByte(bytes[1]) > AvroDeserializer_MAGIC_BYTE

\* magic_byte != self.MAGIC_BYTE, on the first byte read as a signed byte
InvalidMagicByte(bytes) == UnpackSignedByte(bytes[1]) # AvroDeserializer_MAGIC_BYTE

\* struct.unpack('>I', ...)
UnpackBigEndianU32(bs) == ((bs[1] * 256 + bs[2]) * 256 + bs[3]) * 256 + bs[4]

\* A deserializer that takes an input without bytes for an error.
Deserializer_null_Raises(des, cl, versions, ids) ==
    CodecResult(des, cl, versions, ids, "ValueError", << >>, FALSE, << >>, 0)

\* if data is None or len(data) == 0: return None
Deserializer_null(des, cl, versions, ids) ==
    CodecResult(des, cl, versions, ids, "None", << >>, TRUE, << >>, 0)

\* Reading the record body once the schema is in the deserializer's cache.
DeserializerRead(des, cl, versions, ids, schema_id, bytes, reqs) ==
    With(read_record(AvroParse(des._schema_cache[schema_id]), bytes, 6, 1, << >>), LAMBDA r :
        IF r.ok
        THEN CodecResult(des, cl, versions, ids, "None", << >>, FALSE, r.data, reqs)
        ELSE CodecResult(des, cl, versions, ids, "AvroException", << >>, FALSE, << >>, reqs))

Deserializer_deserialize(des, cl, versions, ids, mode, data) ==
    IF data.none \/ Len(data.bytes) = 0
    THEN Deserializer_null(des, cl, versions, ids)
    ELSE IF InvalidMagicByte(data.bytes)
    THEN CodecResult(des, cl, versions, ids, "ValueError", << >>, FALSE, << >>, 0)
    ELSE IF Len(data.bytes) < 5
    THEN CodecResult(des, cl, versions, ids, "struct.error", << >>, FALSE, << >>, 0)
    ELSE LET schema_id == UnpackBigEndianU32(SubSeq(data.bytes, 2, 5)) IN
         IF schema_id \in DOMAIN des._schema_cache
         THEN DeserializerRead(des, cl, versions, ids, schema_id, data.bytes, 0)
         ELSE With(Client_get_schema_by_id(cl, versions, ids, mode, schema_id), LAMBDA r :
                  IF r.exc # "None"
                  THEN CodecResult(des, r.cl, r.versions, r.ids, r.exc, << >>, FALSE, << >>,
                                   r.reqs)
                  ELSE DeserializerRead(
                           [des EXCEPT !._schema_cache =
                               [i \in (DOMAIN @) \cup {schema_id} |->
                                   IF i = schema_id THEN r.schema ELSE @[i]]],
                           r.cl, r.versions, r.ids, schema_id, data.bytes, r.reqs))

\* AvroDeserializer.__call__: the synchronous interface, cached schemas only
Deserializer_call(des, cl, versions, ids, data) ==
    IF data.none \/ Len(data.bytes) = 0
    THEN Deserializer_null(des, cl, versions, ids)
    ELSE IF InvalidMagicByte(data.bytes)
    THEN CodecResult(des, cl, versions, ids, "ValueError", << >>, FALSE, << >>, 0)
    ELSE IF Len(data.bytes) < 5
    THEN CodecResult(des, cl, versions, ids, "struct.error", << >>, FALSE, << >>, 0)
    ELSE LET schema_id == UnpackBigEndianU32(SubSeq(data.bytes, 2, 5)) IN
         IF schema_id \notin DOMAIN des._schema_cache
         THEN CodecResult(des, cl, versions, ids, "RuntimeError", << >>, FALSE, << >>, 0)
         ELSE DeserializerRead(des, cl, versions, ids, schema_id, data.bytes, 0)

(***************************************************************************)
(* AvroKafkaPublisher: [default_subject, _producer, _schema_registry,      *)
(* _serializers, _started].  _producer is the number of the producer       *)
(* object held (0 for None); prods lists the state of every producer       *)
(* object created so far.  A world w is what a publisher call works on:    *)
(* [pub, prods, versions, ids, log].                                       *)
(***************************************************************************)
\* bool(s) of an Optional[str]
Truthy(s) == s # None /\ s # ""

\* AvroKafkaPublisher.__init__
NewPublisher(default_subject) ==
    [default_subject |-> default_subject, _producer |-> 0, _schema_registry |-> NoClient,
     _serializers |-> << >>, _started |-> FALSE]

\* The result of a publisher call: the world after it, the value returned
\* ("raise" when an exception escaped), the exception that escaped, the one
\* caught inside, the subject resolved, the ID returned by register_schema,
\* and the registry requests, broker connections and sends attempted.
PubResult(w, ret, exc, caught, subject, id, reqs, connects, sends) ==
    [w |-> w, ret |-> ret, exc |-> exc, caught |-> caught, subject |-> subject, id |-> id,
     reqs |-> reqs, connects |-> connects, sends |-> sends]

\* A start() without the check of _started.
Publisher_start_Again(w, up) ==
    IF up
    THEN PubResult([w EXCEPT !.pub = [w.pub EXCEPT !._schema_registry = NewClient,
                                                    !._producer = Len(w.prods) + 1,
                                                    !._started = TRUE],
                             !.prods = Append(@, "started")],
                   "None", "None", "None", None, NoneId, 0, 1, 0)
    ELSE PubResult([w EXCEPT !.pub = [w.pub EXCEPT !._schema_registry = NewClient,
                                                    !._producer = Len(w.prods) + 1],
                             !.prods = Append(@, "created")],
                   "raise", "KafkaConnectionError", "None", None, NoneId, 0, 1, 0)

Publisher_start(w, up) ==
    IF w.pub._started
    THEN PubResult(w, "None", "None", "None", None, NoneId, 0, 0, 0)
    ELSE LET n == Len(w.prods) + 1
             p1 == [w.pub EXCEPT !._schema_registry = NewClient, !._producer = n]
         IN IF up
            THEN PubResult([w EXCEPT !.pub = [p1 EXCEPT !._started = TRUE],
                                     !.prods = Append(@, "started")],
                           "None", "None", "None", None, NoneId, 0, 1, 0)
            ELSE PubResult([w EXCEPT !.pub = p1, !.prods = Append(@, "created")],
                           "raise", "KafkaConnectionError", "None", None, NoneId, 0, 1, 0)

Publisher_ensure_started(w, up) ==
    IF ~w.pub._started THEN Publisher_start(w, up)
    ELSE PubResult(w, "None", "None", "None", None, NoneId, 0, 0, 0)

\* A subject resolution that puts the configured default first.
Publisher_get_subject_DefaultFirst(pub, topic, subject) ==
    IF Truthy(pub.default_subject) THEN pub.default_subject
    ELSE IF Truthy(subject) THEN subject
    ELSE TopicSubject(topic)

Publisher_get_subject(pub, topic, subject) ==
    IF Truthy(subject) THEN subject
    ELSE IF Truthy(pub.default_subject) THEN pub.default_subject
    ELSE TopicSubject(topic)

\* self._serializers[subject_name] = serializer
PutSerializer(sers, subject_name, ser) ==
    [s \in (DOMAIN sers) \cup {subject_name} |-> IF s = subject_name THEN ser ELSE sers[s]]

\* The serializer the publisher caches for a subject it has registered.
PublisherSerializer(subject_name, schema) == NewSerializer(subject_name, schema, FALSE)

\* A register_schema that caches the serializer before it asks the registry.
Publisher_register_schema_CachesFirst(w, up, mode, topic, schema, subject) ==
    With(Publisher_ensure_started(w, up), LAMBDA s :
    IF s.exc # "None" THEN s
    ELSE With(Publisher_get_subject(s.w.pub, topic, subject), LAMBDA subject_name :
         With(Client_register_schema(s.w.pub._schema_registry, s.w.versions, s.w.ids,
                                     mode, subject_name, schema), LAMBDA r :
         With([s.w EXCEPT !.pub._schema_registry = r.cl, !.versions = r.versions,
                          !.ids = r.ids,
                          !.pub._serializers =
                              PutSerializer(@, subject_name,
                                            PublisherSerializer(subject_name, schema))],
              LAMBDA w1 :
            IF r.exc # "None"
            THEN PubResult(w1, "raise", r.exc, "None", subject_name, NoneId, r.reqs,
                           s.connects, 0)
            ELSE PubResult(w1, "id", "None", "None", subject_name, r.id, r.reqs,
                           s.connects, 0)))))

Publisher_register_schema(w, up, mode, topic, schema, subject) ==
    With(Publisher_ensure_started(w, up), LAMBDA s :
    IF s.exc # "None" THEN s
    ELSE With(Publisher_get_subject(s.w.pub, topic, subject), LAMBDA subject_name :
         With(Client_register_schema(s.w.pub._schema_registry, s.w.versions, s.w.ids,
                                     mode, subject_name, schema), LAMBDA r :
         With([s.w EXCEPT !.pub._schema_registry = r.cl, !.versions = r.versions,
                          !.ids = r.ids], LAMBDA w1 :
            IF r.exc # "None"
            THEN PubResult(w1, "raise", r.exc, "None", subject_name, NoneId, r.reqs,
                           s.connects, 0)
            ELSE PubResult(
                     [w1 EXCEPT !.pub._serializers =
                                    PutSerializer(@, subject_name,
                                                  PublisherSerializer(subject_name, schema))],
                     "id", "None", "None", subject_name, r.id, r.reqs, s.connects, 0)))))

\* publish, lines 190-206: get or create the serializer of the subject.
Publisher_get_or_create_serializer(w, up, mode, topic, schema, subject, subject_name) ==
    IF subject_name \in DOMAIN w.pub._serializers
    THEN PubResult(w, "None", "None", "None", subject_name, NoneId, 0, 0, 0)
    ELSE IF schema = None
    THEN With(Client_get_latest_schema(w.pub._schema_registry, w.versions, w.ids,
                                       mode, subject_name), LAMBDA g :
         With([w EXCEPT !.pub._schema_registry = g.cl], LAMBDA w1 :
            IF g.exc # "None"
            THEN PubResult(w1, "raise", "ValueError", "None", subject_name, NoneId, g.reqs, 0, 0)
            ELSE [Publisher_register_schema(w1, up, mode, topic, g.meta.schema, subject)
                      EXCEPT !.reqs = @ + g.reqs]))
    ELSE Publisher_register_schema(w, up, mode, topic, schema, subject)

\* serializer.serialize(message, key) on the cached serializer of a subject
Publisher_serialize(w, mode, subject_name, message) ==
    With(Serializer_serialize(w.pub._serializers[subject_name], w.pub._schema_registry,
                              w.versions, w.ids, mode, message), LAMBDA r :
        [w |-> [w EXCEPT !.pub._serializers[subject_name] = r.obj,
                         !.pub._schema_registry = r.cl,
                         !.versions = r.versions, !.ids = r.ids],
         exc |-> r.exc, bytes |-> r.bytes, reqs |-> r.reqs])

\* A message on a topic: the key the key_serializer produced and the value.
LogEntry(topic, key, value) ==
    [topic |-> topic, key |-> IF Truthy(key) THEN key ELSE None, value |-> value]

\* A handler that logs the exception and reports success.
PublishFailure_ReturnsTrue(w, exc, subject_name, reqs, connects, sends) ==
    PubResult(w, "True", "None", exc, subject_name, NoneId, reqs, connects, sends)

\* The value publish returns when its try block raised exc.
PublishFailure(w, exc, subject_name, reqs, connects, sends) ==
    PubResult(w, "False", "None", exc, subject_name, NoneId, reqs, connects, sends)

Publisher_publish(w, up, mode, sendOutcome, topic, message, key, schema, subject) ==
    With(Publisher_ensure_started(w, up), LAMBDA s :
    IF s.exc # "None" THEN s
    ELSE With(Publisher_get_subject(s.w.pub, topic, subject), LAMBDA subject_name :
         With(Publisher_get_or_create_serializer(s.w, up, mode, topic, schema, subject,
                                                 subject_name), LAMBDA a :
            IF a.exc # "None"
            THEN PublishFailure(a.w, a.exc, subject_name, a.reqs, s.connects, 0)
            ELSE With(Publisher_serialize(a.w, mode, subject_name, message), LAMBDA z :
                 IF z.exc # "None"
                 THEN PublishFailure(z.w, z.exc, subject_name, a.reqs + z.reqs, s.connects, 0)
                 ELSE IF ~up \/ sendOutcome # "ack"
                 THEN PublishFailure(z.w, "KafkaError", subject_name, a.reqs + z.reqs,
                                     s.connects, 1)
                 ELSE PubResult([z.w EXCEPT !.log = Append(@, LogEntry(topic, key, z.bytes))],
                                "True", "None", "None", subject_name, NoneId,
                                a.reqs + z.reqs, s.connects, 1)))))

\* The keys argument of publish_batch: [none, list], none for Python None.
Keys(list) == [none |-> FALSE, list |-> list]
NoKeys == [none |-> TRUE, list |-> << >>]

\* keys[i] if keys else None
BatchKey(keys, i) == IF ~keys.none /\ Len(keys.list) > 0 THEN keys.list[i] ELSE None

\* publish_batch, line 253: the keys list is there and of another length
KeysMismatch(keys, messages) ==
    ~keys.none /\ Len(keys.list) > 0 /\ Len(keys.list) # Len(messages)

RECURSIVE Publisher_batch_loop_SkipFailed(_, _, _, _, _, _, _, _, _)
\* A loop that logs the message it could not serialize or send and goes on
\* with the next one.
Publisher_batch_loop_SkipFailed(acc, up, mode, failAt, failKind, topic, messages, keys, i) ==
    IF i > Len(messages) THEN acc
    ELSE With(Publisher_serialize(acc.w, mode, acc.subject, messages[i]), LAMBDA z :
            IF z.exc # "None"
            THEN Publisher_batch_loop_SkipFailed(
                     [acc EXCEPT !.w = z.w, !.reqs = @ + z.reqs],
                     up, mode, failAt, failKind, topic, messages, keys, i + 1)
            ELSE IF ~up \/ (failAt = i /\ failKind = "send")
            THEN Publisher_batch_loop_SkipFailed(
                     [acc EXCEPT !.w = z.w, !.reqs = @ + z.reqs, !.sends = @ + 1],
                     up, mode, failAt, failKind, topic, messages, keys, i + 1)
            ELSE Publisher_batch_loop_SkipFailed(
                     [acc EXCEPT !.w = z.w, !.reqs = @ + z.reqs, !.sends = @ + 1,
                                 !.enq = Append(@, LogEntry(topic, BatchKey(keys, i), z.bytes))],
                     up, mode, failAt, failKind, topic, messages, keys, i + 1))

RECURSIVE Publisher_batch_loop(_, _, _, _, _, _, _, _, _)
\* publish_batch, lines 273-282: serialize and send message i and the ones
\* after it.  acc is [w, exc, reqs, sends, enq]: enq lists the messages the
\* producer accepted.  The send numbered failAt fails in the way failKind.
Publisher_batch_loop(acc, up, mode, failAt, failKind, topic, messages, keys, i) ==
    IF i > Len(messages) THEN acc
    ELSE With(Publisher_serialize(acc.w, mode, acc.subject, messages[i]), LAMBDA z :
            IF z.exc # "None"
            THEN [acc EXCEPT !.w = z.w, !.exc = z.exc, !.reqs = @ + z.reqs]
            ELSE IF ~up \/ (failAt = i /\ failKind = "send")
            THEN [acc EXCEPT !.w = z.w, !.exc = "KafkaError", !.reqs = @ + z.reqs,
                             !.sends = @ + 1]
            ELSE Publisher_batch_loop(
                     [acc EXCEPT !.w = z.w, !.reqs = @ + z.reqs, !.sends = @ + 1,
                                 !.enq = Append(@, LogEntry(topic, BatchKey(keys, i), z.bytes))],
                     up, mode, failAt, failKind, topic, messages, keys, i + 1))

\* The accepted messages that reach the topic: all of them, but the one
\* whose acknowledgment failed.
Delivered(enq, failAt, failKind) ==
    IF failKind = "ack" /\ failAt \in 1..Len(enq)
    THEN SubSeq(enq, 1, failAt - 1) \o SubSeq(enq, failAt + 1, Len(enq))
    ELSE enq

\* publish_batch, lines 258-271: get or create the serializer of the subject.
Publisher_batch_serializer(w, up, mode, topic, schema, subject, subject_name) ==
    IF subject_name \in DOMAIN w.pub._serializers
    THEN PubResult(w, "None", "None", "None", subject_name, NoneId, 0, 0, 0)
    ELSE IF schema = None
    THEN With(Client_get_latest_schema(w.pub._schema_registry, w.versions, w.ids,
                                       mode, subject_name), LAMBDA g :
         With([w EXCEPT !.pub._schema_registry = g.cl], LAMBDA w1 :
            IF g.exc # "None"
            THEN PubResult(w1, "raise", g.exc, "None", subject_name, NoneId, g.reqs, 0, 0)
            ELSE [Publisher_register_schema(w1, up, mode, topic, g.meta.schema, subject)
                      EXCEPT !.reqs = @ + g.reqs]))
    ELSE Publisher_register_schema(w, up, mode, topic, schema, subject)

Publisher_publish_batch(w, up, mode, failAt, failKind, topic, messages, keys, schema, subject) ==
    With(Publisher_ensure_started(w, up), LAMBDA s :
    IF s.exc # "None" THEN s
    ELSE IF KeysMismatch(keys, messages)
    THEN PubResult(s.w, "False", "None", "None", None, NoneId, 0, s.connects, 0)
    ELSE With(Publisher_get_subject(s.w.pub, topic, subject), LAMBDA subject_name :
         With(Publisher_batch_serializer(s.w, up, mode, topic, schema, subject, subject_name),
              LAMBDA a :
            IF a.exc # "None"
            THEN PublishFailure(a.w, a.exc, subject_name, a.reqs, s.connects, 0)
            ELSE With(Publisher_batch_loop(
                          [w |-> a.w, exc |-> "None", reqs |-> a.reqs, sends |-> 0,
                           enq |-> << >>, subject |-> subject_name],
                          up, mode, failAt, failKind, topic, messages, keys, 1), LAMBDA l :
                 With([l.w EXCEPT !.log = @ \o Delivered(l.enq, failAt, failKind)], LAMBDA w2 :
                    IF l.exc # "None"
                    THEN PublishFailure(w2, l.exc, subject_name, l.reqs, s.connects, l.sends)
                    ELSE IF failKind = "ack" /\ failAt \in 1..Len(l.enq)
                    THEN PublishFailure(w2, "KafkaError", subject_name, l.reqs, s.connects,
                                        l.sends)
                    ELSE PubResult(w2, "True", "None", "None", subject_name, NoneId, l.reqs,
                                   s.connects, l.sends))))))

\* close(): stopOk and closeOk tell whether stopping the producer and
\* closing the registry client's session succeed.
Publisher_close(w, stopOk, closeOk) ==
    LET pub == w.pub
        stops == pub._producer # 0 /\ pub._started
        prods1 == IF stops
                  THEN [w.prods EXCEPT ![pub._producer] = IF stopOk THEN "stopped" ELSE "stop_failed"]
                  ELSE w.prods
        cl1 == IF pub._schema_registry.session # "absent" /\ closeOk
               THEN Client_close(pub._schema_registry)
               ELSE pub._schema_registry
    IN PubResult([w EXCEPT !.prods = prods1,
                           !.pub = [pub EXCEPT !._schema_registry = cl1, !._started = FALSE,
                                               !._serializers = << >>]],
                 "None", "None", "None", None, NoneId, 0, 0, 0)

(***************************************************************************)
(* MemorialListener: [_consumer, _schema_registry, _deserializer,          *)
(* _started, _message_handler].  _consumer is the number of the consumer   *)
(* object held (0 for None) and consumers lists the state of every         *)
(* consumer object created; _schema_registry and _deserializer tell        *)
(* whether the attribute is set, and made counts the client and decoder    *)
(* pairs created.  With the object go the topic (inbox, the values of its  *)
(* messages, and offset, the number of them received), the position of     *)
(* the consume() call (pc), the exception that left it (exc), and what it  *)
(* did: the outcome of each decode, the offsets handed to the handler      *)
(* (and in handed, whether the value was None or a record) and             *)
(* how each handler call ended; iter is the consumer the loop iterates.    *)
(* op, stops and startedBefore describe the last call or step.             *)
(***************************************************************************)
\* MemorialListener.__init__ on a topic that holds inbox
NewListener(inbox) ==
    [_consumer |-> 0, _schema_registry |-> FALSE, _deserializer |-> FALSE,
     _started |-> FALSE, _message_handler |-> FALSE,
     consumers |-> << >>, made |-> 0,
     inbox |-> inbox, offset |-> 0, pc |-> "idle", iter |-> 0, exc |-> "None",
     decoded |-> << >>, dispatched |-> << >>, handed |-> << >>, finished |-> << >>,
     op |-> "none", stops |-> 0, startedBefore |-> FALSE]

\* A start() without the check of _started.
Listener_start_Again(l, up) ==
    [l EXCEPT !._schema_registry = TRUE, !._deserializer = TRUE, !.made = @ + 1,
              !._consumer = Len(l.consumers) + 1,
              !.consumers = Append(@, IF up THEN "started" ELSE "created"),
              !._started = up,
              !.exc = IF up THEN "None" ELSE "KafkaConnectionError"]

\* start(): the listener after it; exc is the exception it raised.
Listener_start(l, up) ==
    IF l._started THEN [l EXCEPT !.exc = "None"]
    ELSE [l EXCEPT !._schema_registry = TRUE, !._deserializer = TRUE, !.made = @ + 1,
                   !._consumer = Len(l.consumers) + 1,
                   !.consumers = Append(@, IF up THEN "started" ELSE "created"),
                   !._started = up,
                   !.exc = IF up THEN "None" ELSE "KafkaConnectionError"]

\* consume() up to the loop: an implicit start(), whose exception leaves
\* consume().
Listener_consume_begin(l, up) ==
    IF l._started THEN [l EXCEPT !.pc = "receiving", !.iter = l._consumer, !.exc = "None"]
    ELSE [Listener_start(l, up) EXCEPT !.pc = IF up THEN "receiving" ELSE "raised",
                                       !.iter = IF up THEN Len(l.consumers) + 1 ELSE @]

\* What the handler is handed for a decode result.
Handed(r) == IF r.isNone THEN "null" ELSE "record"

\* A loop body that hands every message to the handler, decoded or not.
Listener_consume_message_AlwaysDispatch(l, r) ==
    IF l._message_handler
    THEN [l EXCEPT !.offset = @ + 1, !.decoded = Append(@, r.exc),
                   !.dispatched = Append(@, l.offset + 1),
                   !.handed = Append(@, Handed(r)), !.pc = "handling"]
    ELSE [l EXCEPT !.offset = @ + 1, !.decoded = Append(@, r.exc)]

\* A loop body that starts the handler without awaiting it.
Listener_consume_message_FireAndForget(l, r) ==
    IF r.exc = "None" /\ l._message_handler
    THEN [l EXCEPT !.offset = @ + 1, !.decoded = Append(@, r.exc),
                   !.dispatched = Append(@, l.offset + 1),
                   !.handed = Append(@, Handed(r))]
    ELSE [l EXCEPT !.offset = @ + 1, !.decoded = Append(@, r.exc)]

\* A loop body that skips a message decoded to None.
Listener_consume_message_SkipsNull(l, r) ==
    IF r.exc = "None" /\ l._message_handler /\ ~r.isNone
    THEN [l EXCEPT !.offset = @ + 1, !.decoded = Append(@, r.exc),
                   !.dispatched = Append(@, l.offset + 1),
                   !.handed = Append(@, Handed(r)), !.pc = "handling"]
    ELSE [l EXCEPT !.offset = @ + 1, !.decoded = Append(@, r.exc)]

\* The loop body for the next message, whose decode gave r: a failure is
\* logged and the loop continues; otherwise the handler, if one is set, is
\* awaited with the decoded value.
Listener_consume_message(l, r) ==
    IF r.exc # "None"
    THEN [l EXCEPT !.offset = @ + 1, !.decoded = Append(@, r.exc)]
    ELSE IF l._message_handler
    THEN [l EXCEPT !.offset = @ + 1, !.decoded = Append(@, r.exc),
                   !.dispatched = Append(@, l.offset + 1),
                   !.handed = Append(@, Handed(r)), !.pc = "handling"]
    ELSE [l EXCEPT !.offset = @ + 1, !.decoded = Append(@, r.exc)]

\* A loop that hands a message whose handler raised to the handler again.
Listener_handler_done_Retries(l, outcome) ==
    IF outcome = "raise"
    THEN [l EXCEPT !.finished = Append(@, [offset |-> l.offset, outcome |-> outcome]),
                   !.dispatched = Append(@, l.offset),
                   !.handed = Append(@, l.handed[Len(l.handed)])]
    ELSE [l EXCEPT !.finished = Append(@, [offset |-> l.offset, outcome |-> outcome]),
                   !.pc = "receiving"]

\* The awaited handler returns or raises: an exception is logged and the
\* loop continues with the next message.
Listener_handler_done(l, outcome) ==
    [l EXCEPT !.finished = Append(@, [offset |-> l.offset, outcome |-> outcome]),
              !.pc = "receiving"]

\* A loop that logs a broker error and goes on receiving.
Listener_receive_error_Continues(l, exc) == [l EXCEPT !.exc = "None"]

\* async for raises a broker error: it is logged and raised again.
Listener_receive_error(l, exc) == [l EXCEPT !.pc = "raised", !.exc = exc]

\* The task running consume() is cancelled: asyncio raises CancelledError
\* at the await the task is suspended in, the handler's when the handler is
\* running; no except clause of consume() matches it.
Listener_cancelled(l) ==
    IF l.pc = "handling"
    THEN [l EXCEPT !.finished = Append(@, [offset |-> l.offset, outcome |-> "cancelled"]),
                   !.pc = "cancelled", !.exc = "CancelledError"]
    ELSE [l EXCEPT !.pc = "cancelled", !.exc = "CancelledError"]

\* A close() that stops the consumer it holds whether started or not.
Listener_close_StopsAlways(l, stopOk) ==
    [l EXCEPT !.consumers = IF l._consumer # 0
                            THEN [@ EXCEPT ![l._consumer] =
                                     IF stopOk THEN "stopped" ELSE "stop_failed"]
                            ELSE @,
              !.stops = IF l._consumer # 0 THEN 1 ELSE 0,
              !._started = FALSE, !.exc = "None"]

\* close(): stopOk tells whether stopping the consumer succeeds.
Listener_close(l, stopOk) ==
    [l EXCEPT !.consumers = IF l._consumer # 0 /\ l._started
                            THEN [@ EXCEPT ![l._consumer] =
                                     IF stopOk THEN "stopped" ELSE "stop_failed"]
                            ELSE @,
              !.stops = IF l._consumer # 0 /\ l._started THEN 1 ELSE 0,
              !._started = FALSE, !.exc = "None"]

(***************************************************************************)
(* The application (main.py): [pc, task, listenerSet, listenerClosed,      *)
(* publisherClosed, exc].  task[i] is the state of the asyncio task that   *)
(* runs listener i (1 the memorial listener, 2 the delete listener),       *)
(* listenerSet[i] whether its global holds a listener object; pc is the    *)
(* position of lifespan and exc the exception that left it.  A task is     *)
(* "pending" (created, not run yet), "consuming", ended with the exception *)
(* of start() ("start_error") or of the consume loop ("broker_error"), or  *)
(* "cancelled".                                                            *)
(***************************************************************************)
TaskFailed(t) == t \in {"start_error", "broker_error"}

\* lifespan after its startup part: both tasks are created, none has run.
NewApp ==
    [pc |-> "running", task |-> <<"pending", "pending">>,
     listenerSet |-> <<FALSE, FALSE>>, listenerClosed |-> <<FALSE, FALSE>>,
     publisherClosed |-> <<FALSE, FALSE>>, exc |-> "None"]

\* start_listener up to consume(): the listener object is assigned, and an
\* exception of its start() ends the task.
App_start_listener(a, i, up) ==
    [a EXCEPT !.listenerSet[i] = TRUE,
              !.task[i] = IF up THEN "consuming" ELSE "start_error"]

\* consume() raising inside start_listener: the exception is logged and
\* raised again, which ends the task.
App_listener_error(a, i) == [a EXCEPT !.task[i] = "broker_error"]

\* stop_listener: the task is cancelled and awaited, CancelledError is
\* passed over, and the listener is closed.  Awaiting a task that ended
\* with an exception raises that exception.
App_stop_listener(a, i, next) ==
    IF TaskFailed(a.task[i])
    THEN [a EXCEPT !.pc = "aborted", !.exc = a.task[i]]
    ELSE [a EXCEPT !.task[i] = "cancelled",
                   !.listenerClosed[i] = a.listenerSet[i],
                   !.pc = next]

\* close_publisher of service j
App_close_publisher(a, j, next) == [a EXCEPT !.publisherClosed[j] = TRUE, !.pc = next]

(***************************************************************************)
(* MemorialVectorStoreService: the vectors stored (the memorial IDs that   *)
(* have one) and the last process_memorial call.  Its publisher is the     *)
(* publisher of the world w.  ext tells which of the external calls        *)
(* succeed: [fetch, embed, upsert].                                        *)
(***************************************************************************)
\* not v
PyFalsy(v) ==
    \/ v.t = "null"
    \/ v.t \in {"long", "boolean"} /\ PyNum(v) = 0
    \/ v.t = "string" /\ v.s = << >>

NoServiceCall ==
    [op |-> "none", data |-> << >>, ext |-> [fetch |-> TRUE, embed |-> TRUE, upsert |-> TRUE],
     up |-> TRUE, mode |-> "up", sendOutcome |-> "ack",
     ret |-> "None", exc |-> "None", upserted |-> FALSE, publishRet |-> "None",
     published |-> FALSE]

NewService == [vectors |-> {}, call |-> NoServiceCall]

\* The response_message of _publish_response for a request.
ServiceResponse(data) ==
    [memorialId |-> DictGet(data, "memorialId", PyNone),
     content |-> DictGet(data, "content", PyNone),
     metadata |-> PyNone]

\* The result of process_memorial: the world and the vectors after it, the
\* value returned ("raise" when an exception left it) and the exception.
ServiceResult(w, vectors, ret, exc, upserted, publishRet) ==
    [w |-> w, vectors |-> vectors, ret |-> ret, exc |-> exc, upserted |-> upserted,
     publishRet |-> publishRet]

\* _publish_response after a successful upsert: publish with the schema
\* read from the schema file; False, or an exception of publish, becomes
\* PublisherException.
Service_publish_response(w, vectors, up, mode, sendOutcome, data) ==
    With(Publisher_publish(w, up, mode, sendOutcome, "memorial-vectorizing-response",
                           ServiceResponse(data), "k1", "FeedV1", None), LAMBDA r :
        IF r.exc # "None"
        THEN ServiceResult(r.w, vectors, "raise", "PublisherException", TRUE, "raise")
        ELSE IF r.ret # "True"
        THEN ServiceResult(r.w, vectors, "raise", "PublisherException", TRUE, r.ret)
        ELSE ServiceResult(r.w, vectors, "True", "None", TRUE, r.ret))

\* process_memorial
Service_process_memorial(w, vectors, up, mode, sendOutcome, data, ext) ==
    IF PyFalsy(DictGet(data, "memorialId", PyNone))
           \/ PyFalsy(DictGet(data, "content", PyNone))
           \/ PyFalsy(DictGet(data, "characterId", PyNone))
    THEN ServiceResult(w, vectors, "raise", "MemorialDataException", FALSE, "None")
    ELSE IF ~ext.fetch
    THEN ServiceResult(w, vectors, "raise", "CharacterFetchException", FALSE, "None")
    ELSE IF ~ext.embed \/ ~ext.upsert
    THEN ServiceResult(w, vectors, "raise", "VectorStoreException", FALSE, "None")
    ELSE Service_publish_response(w, vectors \cup {data.memorialId.n}, up, mode,
                                  sendOutcome, data)

(***************************************************************************)
(* Inputs: the records handed to encode and the buffers handed to decode.  *)
(***************************************************************************)
Records ==
    { [memorialId |-> PyInt(300), content |-> PyStr(<<104, 233>>), metadata |-> PyStr(<<107>>)],
      [memorialId |-> PyInt(-65), content |-> PyStr(<< >>)],
      [memorialId |-> PyBool(TRUE), content |-> PyStr(<<97>>), metadata |-> PyNone],
      [memorialId |-> PyInt(0), deleted |-> PyBool(TRUE), writerId |-> PyInt(64)],
      [memorialId |-> PyInt(2), deleted |-> PyBool(FALSE)],
      [memorialId |-> PyInt(1)],
      [memorialId |-> PyStr(<<120>>), content |-> PyStr(<<97>>)] }

\* The envelope a conforming producer writes for a record under a schema.
ProducedEnvelope(schema, data) ==
    <<0>> \o PackBigEndianU32(RegistryIdFor(schema)) \o write_record(AvroParse(schema), data, 1)

WellFormedBuffers ==
    UNION { {ProducedEnvelope(s, d) : d \in {r \in Records : AvroValidate(AvroParse(s), r)}} :
                s \in Schemas }

\* The two envelopes the damaged buffers are made from.
EnvelopeV1 ==
    ProducedEnvelope("FeedV1",
        [memorialId |-> PyInt(300), content |-> PyStr(<<104, 233>>), metadata |-> PyStr(<<107>>)])
EnvelopeV2 ==
    ProducedEnvelope("FeedV2", [memorialId |-> PyInt(0), deleted |-> PyBool(TRUE), writerId |-> PyInt(64)])

\* Well-formed envelopes and damaged ones: another first byte, a header or
\* a body cut short, a schema ID the registry never minted, no bytes at all.
Buffers ==
    {NoneBuffer, Buffer(<< >>), Buffer(<<1>>), Buffer(<<0, 0, 0, 0, 5, 2, 0>>)}
        \cup {Buffer(w) : w \in WellFormedBuffers}
        \cup {Buffer(<<1>> \o Tail(w)) : w \in {EnvelopeV1, EnvelopeV2}}
        \cup {Buffer(<<255>> \o Tail(EnvelopeV1)),
              Buffer(SubSeq(EnvelopeV2, 1, 3)),
              Buffer(SubSeq(EnvelopeV1, 1, Len(EnvelopeV1) - 1)),
              Buffer(SubSeq(EnvelopeV2, 1, Len(EnvelopeV2) - 1))}

(***************************************************************************)
(* State                                                                   *)
(***************************************************************************)
VARIABLES
    regVersions,    \* registry: subject -> schema IDs registered, oldest first
    regIds,         \* registry: the schema IDs it resolves
    registryMode,   \* registry: how it answers requests
    client,         \* a SchemaRegistryClient shared by the two codecs below
    serializer,     \* an AvroSerializer
    deserializer,   \* an AvroDeserializer
    codecCall,      \* the codec or client call made by the last step, if it was one
    brokerUp,       \* broker: whether it accepts connections and sends
    topicLog,       \* broker: the messages appended to the topics, in order
    producers,      \* the state of every AIOKafkaProducer object created
    publisher,      \* an AvroKafkaPublisher
    pubCall,        \* the publisher call made by the last step, if it was one
    tasks,          \* the client calls of concurrent coroutines, each at its await
    listener,       \* a MemorialListener, its consumers, its topic and its consume() call
    app,            \* the application: its two listener tasks and its shutdown
    service         \* a MemorialVectorStoreService: the vectors stored, its last call

codecVars == <<client, serializer, deserializer>>
registryVars == <<regVersions, regIds, registryMode>>
pubVars == <<brokerUp, topicLog, producers, publisher>>
callVars == <<codecCall, pubCall, tasks>>
appVars == <<app, service>>
vars == <<registryVars, codecVars, pubVars, callVars, listener, appVars>>

NoCall ==
    [op |-> "none", data |-> << >>, input |-> NoneBuffer, exc |-> "None", bytes |-> << >>,
     isNone |-> FALSE, record |-> << >>, reqs |-> 0, cacheChanged |-> FALSE,
     clientBefore |-> NewClient, desBefore |-> NewDeserializer,
     subject |-> None, schema |-> None, idArg |-> NoneId, id |-> NoneId,
     meta |-> NoMetadata, ret |-> "None", status |-> "None", message |-> << >>,
     firstExc |-> "None", firstReqs |-> 0, versionsBefore |-> << >>]

NoPubCall ==
    [op |-> "none", topic |-> None, subjectArg |-> None, schemaArg |-> None,
     messages |-> << >>, keys |-> NoKeys, sendOutcome |-> "ack", failAt |-> 0,
     ret |-> "None", exc |-> "None", caught |-> "None", subject |-> None, id |-> NoneId,
     reqs |-> 0, connects |-> 0, sends |-> 0,
     startedBefore |-> FALSE, cachedBefore |-> FALSE, logBefore |-> << >>]

\* The coroutines that call the client concurrently.
RaceTasks == {1, 2}

\* A coroutine that is in no call; producer is the producer object a
\* coroutine inside start() is connecting.
NoTask ==
    [pc |-> "idle", op |-> "none", subject |-> None, idArg |-> NoneId, exc |-> "None",
     meta |-> NoMetadata, schema |-> None, reqs |-> 0, producer |-> 0]

NoTasks == [t \in RaceTasks |-> NoTask]

\* The subject the codecs of the codec specification are built for.
CodecSubject == TopicSubject("memorial-vectorizing-response")

\* The values of the default_subject constructor argument.
DefaultSubjects == {None, "", "default-subject"}

RegistryInit ==
    /\ regVersions = [s \in Subjects |-> << >>]
    /\ regIds = {}
    /\ registryMode = "up"

CodecInit ==
    /\ client = NewClient
    /\ serializer = NewSerializer(CodecSubject, None, TRUE)
    /\ deserializer = NewDeserializer
    /\ codecCall = NoCall
    /\ tasks = NoTasks

PublisherInit ==
    /\ brokerUp = TRUE
    /\ topicLog = << >>
    /\ producers = << >>
    /\ publisher = NewPublisher(None)
    /\ pubCall = NoPubCall

AppInit == app = NewApp /\ service = NewService

Init == RegistryInit /\ CodecInit /\ PublisherInit /\ listener = NewListener(<< >>) /\ AppInit

(***************************************************************************)
(* The environment: the registry changes mode, and other processes         *)
(* register schemas.                                                       *)
(***************************************************************************)
\* No call is waiting for its caller to take the result.
Idle == codecCall = NoCall /\ pubCall = NoPubCall

\* The caller takes the result of the call made by the last step.
CallReturns ==
    /\ ~Idle
    /\ codecCall' = NoCall
    /\ pubCall' = NoPubCall
    /\ UNCHANGED <<registryVars, codecVars, pubVars, tasks, listener, appVars>>

EnvRegistryMode(mode) ==
    /\ Idle
    /\ mode # registryMode
    /\ registryMode' = mode
    /\ UNCHANGED <<regVersions, regIds, codecVars, pubVars, callVars, listener, appVars>>

EnvRegister(subject, schema) ==
    /\ Idle
    /\ ~SeqContains(regVersions[subject], RegistryIdFor(schema))
    /\ regVersions' = RegistryPost(regVersions, subject, schema)
    /\ regIds' = regIds \cup {RegistryIdFor(schema)}
    /\ UNCHANGED <<registryMode, codecVars, pubVars, callVars, listener, appVars>>

EnvBroker ==
    /\ Idle
    /\ brokerUp' = ~brokerUp
    /\ UNCHANGED <<registryVars, codecVars, callVars, topicLog, producers, publisher, listener, appVars>>

(***************************************************************************)
(* Codec steps                                                             *)
(***************************************************************************)
\* Apply the result r of a codec call on the serializer.
SerializerStep(op, data, r) ==
    /\ Idle
    /\ serializer' = r.obj
    /\ client' = r.cl
    /\ regVersions' = r.versions
    /\ regIds' = r.ids
    /\ codecCall' = [NoCall EXCEPT !.op = op, !.data = data, !.exc = r.exc,
                                   !.bytes = r.bytes, !.reqs = r.reqs]
    /\ UNCHANGED <<registryMode, deserializer, pubVars, pubCall, tasks, listener, appVars>>

\* Apply the result r of a codec call on the deserializer.
DeserializerStep(op, data, r) ==
    /\ Idle
    /\ deserializer' = r.obj
    /\ client' = r.cl
    /\ codecCall' = [NoCall EXCEPT !.op = op, !.input = data, !.exc = r.exc,
                                   !.isNone = r.isNone, !.record = r.record, !.reqs = r.reqs,
                                   !.cacheChanged = (r.obj # deserializer
                                                        \/ r.cl._id_cache # client._id_cache
                                                        \/ r.cl._schema_cache # client._schema_cache),
                                   !.clientBefore = client, !.desBefore = deserializer]
    /\ UNCHANGED <<registryVars, serializer, pubVars, pubCall, tasks, listener, appVars>>

CodecNewSerializer(schema, auto_register) ==
    /\ Idle
    /\ serializer' = NewSerializer(CodecSubject, schema, auto_register)
    /\ serializer' # serializer
    /\ UNCHANGED <<registryVars, client, deserializer, pubVars, callVars, listener, appVars>>

CodecSerialize(data) ==
    SerializerStep("serialize", data,
        Serializer_serialize(serializer, client, regVersions, regIds, registryMode, data))

CodecSerializerCall(data) ==
    SerializerStep("serializer_call", data,
        Serializer_call(serializer, client, regVersions, regIds, data))

CodecDeserialize(data) ==
    DeserializerStep("deserialize", data,
        Deserializer_deserialize(deserializer, client, regVersions, regIds, registryMode, data))

CodecDeserializerCall(data) ==
    DeserializerStep("deserializer_call", data,
        Deserializer_call(deserializer, client, regVersions, regIds, data))

\* Apply the results of serialize (e) and of deserialize on its bytes (d).
RoundTripStep(data, e, d) ==
    /\ Idle
    /\ e.exc = "None"
    /\ serializer' = e.obj
    /\ deserializer' = d.obj
    /\ client' = d.cl
    /\ regVersions' = e.versions
    /\ regIds' = e.ids
    /\ codecCall' = [NoCall EXCEPT !.op = "roundtrip", !.data = data, !.bytes = e.bytes,
                                   !.input = Buffer(e.bytes), !.exc = d.exc,
                                   !.isNone = d.isNone, !.record = d.record,
                                   !.reqs = e.reqs + d.reqs]
    /\ UNCHANGED <<registryMode, pubVars, pubCall, tasks, listener, appVars>>

\* decode(encode(record)): serialize, then deserialize the bytes returned.
RoundTrip(data, e) ==
    RoundTripStep(data, e,
        Deserializer_deserialize(deserializer, e.cl, e.versions, e.ids, registryMode,
                                 Buffer(e.bytes)))

CodecRoundTrip(data) ==
    RoundTrip(data,
        Serializer_serialize(serializer, client, regVersions, regIds, registryMode, data))

CodecNext ==
    \/ \E mode \in CodecRegistryModes : EnvRegistryMode(mode)
    \/ \E schema \in Schemas : EnvRegister(CodecSubject, schema)
    \/ \E schema \in Schemas \cup {None}, auto_register \in BOOLEAN :
            CodecNewSerializer(schema, auto_register)
    \/ \E data \in Records : CodecSerialize(data)
    \/ \E data \in Records : CodecSerializerCall(data)
    \/ \E data \in Buffers : CodecDeserialize(data)
    \/ \E data \in Buffers : CodecDeserializerCall(data)
    \/ \E data \in Records : CodecRoundTrip(data)
    \/ CallReturns

SpecCodec == Init /\ [][CodecNext]_vars

(***************************************************************************)
(* Properties of the codecs, under SpecCodec                               *)
(***************************************************************************)
\* C8: every byte sequence the serializer returns, from serialize or from
\* the synchronous call interface, starts with the byte 0x00, then holds in
\* bytes 1-4 the big-endian unsigned 32-bit encoding of the schema ID the
\* serializer resolved, and then the Avro body of the record.
C8_WireFormat ==
    (/\ codecCall.op \in {"serialize", "serializer_call", "roundtrip"}
     /\ (codecCall.op = "roundtrip" \/ codecCall.exc = "None"))
    => /\ Len(codecCall.bytes) >= 5
       /\ \A i \in 1..Len(codecCall.bytes) : codecCall.bytes[i] \in 0..255
       /\ codecCall.bytes[1] = 0
       /\ serializer._schema_id \in regIds
       /\ codecCall.bytes[2] * 16777216 + codecCall.bytes[3] * 65536
            + codecCall.bytes[4] * 256 + codecCall.bytes[5] = serializer._schema_id
       /\ SubSeq(codecCall.bytes, 6, Len(codecCall.bytes))
            = write_record(AvroParse(serializer._avro_schema), codecCall.data, 1)

\* The synchronous call interface returned the envelope of a record under
\* the schema with ID 0x01020304.
C8_Witness ==
    /\ codecCall.op = "serializer_call"
    /\ codecCall.exc = "None"
    /\ serializer._schema_id = 16909060
    /\ SubSeq(codecCall.bytes, 1, 5) = <<0, 1, 2, 3, 4>>

\* C9: decoding a non-empty buffer whose first byte is not 0x00, with
\* deserialize or with the synchronous call interface, fails with a
\* ValueError: no record is returned, no request goes to the registry and
\* no schema cache changes.
C9_MagicByteRejected ==
    (/\ codecCall.op \in {"deserialize", "deserializer_call"}
     /\ ~codecCall.input.none
     /\ Len(codecCall.input.bytes) > 0
     /\ codecCall.input.bytes[1] # 0)
    => /\ codecCall.exc = "ValueError"
       /\ codecCall.record = << >>
       /\ ~codecCall.isNone
       /\ codecCall.reqs = 0
       /\ ~codecCall.cacheChanged

\* deserialize rejected an envelope whose first byte is 0xFF although the
\* registry is up and resolves the schema ID the envelope names.
C9_Witness ==
    /\ codecCall.op = "deserialize"
    /\ Len(codecCall.input.bytes) > 5
    /\ codecCall.input.bytes[1] = 255
    /\ UnpackBigEndianU32(SubSeq(codecCall.input.bytes, 2, 5)) \in regIds
    /\ registryMode = "up"
    /\ codecCall.exc = "ValueError"

\* C10: for a record valid under the serializer's schema, deserializing the
\* bytes serialize returned, the schema resolved by the ID in the bytes from
\* the same registry, yields a record with exactly the fields of the schema,
\* each equal to the field of the original, a null (or missing nullable)
\* field being None; the decoding fails only when the registry cannot be
\* reached.
C10_RoundTrip ==
    codecCall.op = "roundtrip"
    => /\ codecCall.exc = "None" \/ registryMode = "down"
       /\ codecCall.exc \in {"None", "ClientError"}
       /\ codecCall.exc = "None"
            => /\ ~codecCall.isNone
               /\ DOMAIN codecCall.record = FieldNames(AvroParse(serializer._avro_schema))
               /\ DOMAIN codecCall.data \subseteq DOMAIN codecCall.record
               /\ \A name \in DOMAIN codecCall.record :
                      PyEq(codecCall.record[name], DictGet(codecCall.data, name, PyNone))

\* A record with a null field, a string field and a field given as a bool
\* came back from the round trip with its null.
C10_Witness ==
    /\ codecCall.op = "roundtrip"
    /\ codecCall.exc = "None"
    /\ "metadata" \in DOMAIN codecCall.data
    /\ codecCall.data.metadata = PyNone
    /\ codecCall.record.metadata = PyNone
    /\ codecCall.record.content = PyStr(<<97>>)

\* C11: decoding None or a zero-length input, with deserialize or with the
\* synchronous call interface, returns None: nothing is raised, no request
\* goes to the registry and no schema cache changes.
C11_NullInput ==
    (/\ codecCall.op \in {"deserialize", "deserializer_call"}
     /\ (codecCall.input.none \/ Len(codecCall.input.bytes) = 0))
    => /\ codecCall.isNone
       /\ codecCall.exc = "None"
       /\ codecCall.record = << >>
       /\ codecCall.reqs = 0
       /\ deserializer = codecCall.desBefore
       /\ client = codecCall.clientBefore

\* deserialize returned None for zero-length bytes while the registry was
\* down.
C11_Witness ==
    /\ codecCall.op = "deserialize"
    /\ ~codecCall.input.none
    /\ codecCall.input.bytes = << >>
    /\ registryMode = "down"
    /\ codecCall.isNone

\* The schema ID a buffer with a whole header names.
CallSchemaId == UnpackBigEndianU32(SubSeq(codecCall.input.bytes, 2, 5))

\* C12: deserialize of an envelope whose schema ID is not in the
\* deserializer's cache asks the registry client for the schema and caches
\* it; when the registry does not resolve the ID or cannot be reached, the
\* client's error leaves deserialize as it is, no record is returned, and
\* neither the deserializer's cache nor the client's gains the ID, so that
\* the next deserialize of the ID issues a request again.
C12_FirstSight ==
    (/\ codecCall.op = "deserialize"
     /\ ~codecCall.input.none
     /\ Len(codecCall.input.bytes) >= 5
     /\ codecCall.input.bytes[1] = 0
     /\ CallSchemaId \notin DOMAIN codecCall.desBefore._schema_cache)
    => IF \/ CallSchemaId \in DOMAIN codecCall.clientBefore._id_cache
          \/ (registryMode = "up" /\ CallSchemaId \in regIds)
       THEN /\ codecCall.exc \in {"None", "AvroException"}
            /\ CallSchemaId \in DOMAIN deserializer._schema_cache
            /\ deserializer._schema_cache[CallSchemaId] = RegistrySchemaOf(CallSchemaId)
            /\ CallSchemaId \in DOMAIN client._id_cache
            /\ codecCall.reqs =
                 (IF CallSchemaId \in DOMAIN codecCall.clientBefore._id_cache THEN 0 ELSE 1)
       ELSE /\ codecCall.exc = (IF registryMode = "down" THEN "ClientError" ELSE "Exception")
            /\ codecCall.reqs = 1
            /\ codecCall.record = << >>
            /\ ~codecCall.isNone
            /\ deserializer = codecCall.desBefore
            /\ client._id_cache = codecCall.clientBefore._id_cache
            /\ Deserializer_deserialize(deserializer, client, regVersions, regIds,
                                        registryMode, codecCall.input).reqs = 1

\* deserialize of an envelope with an ID the registry knows failed with the
\* client's error because the registry was down, and cached nothing.
C12_Witness ==
    /\ codecCall.op = "deserialize"
    /\ Len(codecCall.input.bytes) > 5
    /\ codecCall.input.bytes[1] = 0
    /\ CallSchemaId \in regIds
    /\ registryMode = "down"
    /\ codecCall.exc = "ClientError"
    /\ CallSchemaId \notin DOMAIN deserializer._schema_cache

\* C20: a serializer that holds a schema ID resolves nothing more: a later
\* serialize or synchronous call on that instance issues no registry
\* request and registers nothing, the instance keeps its ID and its schema,
\* and the envelope returned carries that ID.
C20_ResolvedOnce ==
    [][(/\ serializer._schema_id # NoneId
        /\ codecCall'.op \in {"serialize", "serializer_call", "roundtrip"})
       => /\ serializer'._schema_id = serializer._schema_id
          /\ serializer'._avro_schema = serializer._avro_schema
          /\ regVersions' = regVersions
          /\ codecCall'.op # "roundtrip" => codecCall'.reqs = 0
          /\ codecCall'.bytes # << >>
               => SubSeq(codecCall'.bytes, 2, 5) = PackBigEndianU32(serializer._schema_id)]_vars

\* serialize returned an envelope with the ID resolved earlier, without a
\* request, although a newer schema has been registered under the subject
\* since.
C20_Witness ==
    /\ codecCall.op = "serialize"
    /\ codecCall.exc = "None"
    /\ codecCall.reqs = 0
    /\ serializer._schema_id = 258
    /\ SubSeq(codecCall.bytes, 2, 5) = <<0, 0, 1, 2>>
    /\ regVersions[CodecSubject] = <<258, 16909060>>

C35_NoAutoRegisterNeverResolves ==
    [][(/\ ~serializer.auto_register
        /\ serializer.schema_str # None
        /\ serializer._schema_id = NoneId
        /\ codecCall'.op \in {"serialize", "serializer_call"})
           => /\ codecCall'.exc =
                     (IF codecCall'.op = "serialize" THEN "ValueError" ELSE "RuntimeError")
              /\ codecCall'.bytes = << >>
              /\ codecCall'.reqs = 0
              /\ serializer' = serializer
              /\ regVersions' = regVersions
              /\ regIds' = regIds]_vars

\* serialize was called, with the registry reachable and a conforming
\* record, on a serializer built with the first schema and auto_register
\* off: it raised ValueError.
C35_Witness ==
    /\ codecCall.op = "serialize"
    /\ serializer = NewSerializer(CodecSubject, "FeedV1", FALSE)
    /\ registryMode = "up"
    /\ AvroValidate(AvroParse("FeedV1"), codecCall.data)
    /\ codecCall.exc = "ValueError"
    /\ codecCall.reqs = 0

(***************************************************************************)
(* Registry client steps: the calls of one SchemaRegistryClient, with      *)
(* other processes registering schemas and the registry changing mode.     *)
(***************************************************************************)
ClientRegistryModes == {"up", "down", "created", "timeout"}

ClientSubjects == {CodecSubject, "explicit-subject"}

\* The schema IDs asked for: the two the registry can mint and one it never
\* resolves.
ClientIds == {RegistryIdFor(schema) : schema \in Schemas} \cup {5}

\* The call record of a client call on the current state.
ClientCall(op, subject, schema, idArg) ==
    [NoCall EXCEPT !.op = op, !.subject = subject, !.schema = schema, !.idArg = idArg,
                   !.clientBefore = client, !.versionsBefore = regVersions]

\* Apply a client call: the client and the registry after it, and its record.
ClientStep(cl, versions, ids, call) ==
    /\ Idle
    /\ client' = cl
    /\ regVersions' = versions
    /\ regIds' = ids
    /\ codecCall' = call
    /\ UNCHANGED <<registryMode, serializer, deserializer, pubVars, pubCall, tasks, listener, appVars>>

ClientRegister(subject, schema) ==
    With(Client_register_schema(client, regVersions, regIds, registryMode, subject, schema),
         LAMBDA r :
        ClientStep(r.cl, r.versions, r.ids,
            [ClientCall("register_schema", subject, schema, NoneId) EXCEPT
                !.exc = r.exc, !.id = r.id, !.reqs = r.reqs,
                !.status = HttpOutcome(registryMode, "POST", TRUE),
                !.message = IF r.exc = "Exception"
                            THEN Client_register_schema_message(
                                     HttpOutcome(registryMode, "POST", TRUE), "body")
                            ELSE << >>]))

ClientGetById(schema_id) ==
    With(Client_get_schema_by_id(client, regVersions, regIds, registryMode, schema_id),
         LAMBDA r :
        ClientStep(r.cl, r.versions, r.ids,
            [ClientCall("get_schema_by_id", None, None, schema_id) EXCEPT
                !.exc = r.exc, !.schema = r.schema, !.reqs = r.reqs]))

\* Two successive calls get_schema_by_id(schema_id): first is the result of
\* the first call and r that of the second, made on the client the first
\* left.
ClientGetByIdTwice(schema_id) ==
    With(Client_get_schema_by_id(client, regVersions, regIds, registryMode, schema_id),
         LAMBDA first :
        With(Client_get_schema_by_id(first.cl, first.versions, first.ids, registryMode,
                                     schema_id),
             LAMBDA r :
            ClientStep(r.cl, r.versions, r.ids,
                [ClientCall("get_schema_by_id_twice", None, None, schema_id) EXCEPT
                    !.firstExc = first.exc, !.firstReqs = first.reqs,
                    !.exc = r.exc, !.schema = r.schema, !.reqs = first.reqs + r.reqs])))

ClientGetLatest(subject) ==
    With(Client_get_latest_schema(client, regVersions, regIds, registryMode, subject),
         LAMBDA r :
        ClientStep(r.cl, r.versions, r.ids,
            [ClientCall("get_latest_schema", subject, None, NoneId) EXCEPT
                !.exc = r.exc, !.meta = r.meta, !.reqs = r.reqs]))

ClientCheckCompatibility(subject, schema, is_compatible) ==
    With(Client_check_compatibility(client, regVersions, registryMode, subject, schema,
                                    is_compatible),
         LAMBDA r :
        ClientStep(r.cl, r.versions, regIds,
            [ClientCall("check_compatibility", subject, schema, NoneId) EXCEPT
                !.exc = r.exc, !.ret = r.ret, !.reqs = r.reqs,
                !.status = HttpOutcome(registryMode, "POST", regVersions[subject] # << >>)]))

ClientDelete(subject) ==
    With(Client_delete_subject(client, regVersions, registryMode, subject), LAMBDA r :
        ClientStep(r.cl, r.versions, regIds,
            [ClientCall("delete_subject", subject, None, NoneId) EXCEPT
                !.exc = r.exc, !.ret = r.ret, !.reqs = r.reqs,
                !.status = HttpOutcome(registryMode, "DELETE", regVersions[subject] # << >>)]))

ClientClearCache ==
    /\ client # Client_clear_cache(client)
    /\ ClientStep(Client_clear_cache(client), regVersions, regIds,
                  ClientCall("clear_cache", None, None, NoneId))

ClientNext ==
    \/ \E mode \in ClientRegistryModes : EnvRegistryMode(mode)
    \/ \E subject \in ClientSubjects, schema \in Schemas : EnvRegister(subject, schema)
    \/ \E subject \in ClientSubjects, schema \in Schemas : ClientRegister(subject, schema)
    \/ \E schema_id \in ClientIds : ClientGetById(schema_id)
    \/ \E schema_id \in ClientIds : ClientGetByIdTwice(schema_id)
    \/ \E subject \in ClientSubjects : ClientGetLatest(subject)
    \/ \E subject \in ClientSubjects, schema \in Schemas, is_compatible \in BOOLEAN :
            ClientCheckCompatibility(subject, schema, is_compatible)
    \/ \E subject \in ClientSubjects : ClientDelete(subject)
    \/ ClientClearCache
    \/ CallReturns

SpecClient == Init /\ [][ClientNext]_vars

\* C13 as stated: for every schema ID, two successive calls
\* get_schema_by_id(id) on one client issue at most one request in total.
C13_TwoCallsOneRequest ==
    codecCall.op = "get_schema_by_id_twice" => codecCall.reqs <= 1

\* C13: after a successful get_schema_by_id(id), or a successful
\* register_schema that returned id, every later get_schema_by_id(id) on
\* that client is answered from the cache: two successive calls of which
\* the first succeeds issue at most one request in total, a call for a
\* cached ID issues none, and an entry stays in the ID cache until
\* clear_cache.
C13_CachedAfterSuccess ==
    /\ (codecCall.op = "get_schema_by_id_twice" /\ codecCall.firstExc = "None")
        => /\ codecCall.reqs = codecCall.firstReqs
           /\ codecCall.reqs <= 1
           /\ codecCall.exc = "None"
           /\ codecCall.schema = RegistrySchemaOf(codecCall.idArg)
    /\ (codecCall.op = "get_schema_by_id"
         /\ codecCall.idArg \in DOMAIN codecCall.clientBefore._id_cache)
        => /\ codecCall.reqs = 0
           /\ codecCall.exc = "None"
           /\ codecCall.schema = codecCall.clientBefore._id_cache[codecCall.idArg]
    /\ (codecCall.op = "get_schema_by_id" /\ codecCall.exc = "None")
        => codecCall.idArg \in DOMAIN client._id_cache
    /\ (codecCall.op = "register_schema" /\ codecCall.exc = "None")
        => \A mode \in ClientRegistryModes :
              Client_get_schema_by_id(client, regVersions, regIds, mode, codecCall.id).reqs = 0
    /\ codecCall.op \notin {"none", "clear_cache"}
        => \A i \in DOMAIN codecCall.clientBefore._id_cache :
              /\ i \in DOMAIN client._id_cache
              /\ client._id_cache[i] = codecCall.clientBefore._id_cache[i]

\* Two successive lookups of an uncached ID: the first asked the registry,
\* the second was answered from the cache.
C13_Witness ==
    /\ codecCall.op = "get_schema_by_id_twice"
    /\ codecCall.idArg \notin DOMAIN codecCall.clientBefore._id_cache
    /\ codecCall.firstExc = "None"
    /\ codecCall.firstReqs = 1
    /\ codecCall.reqs = 1
    /\ codecCall.exc = "None"

C15_RegisterFillsCaches ==
    (codecCall.op = "register_schema" /\ codecCall.exc = "None")
    => /\ codecCall.id = RegistryIdFor(codecCall.schema)
       /\ codecCall.subject \in DOMAIN client._schema_cache
       /\ client._schema_cache[codecCall.subject].schema_id = codecCall.id
       /\ client._schema_cache[codecCall.subject].schema = codecCall.schema
       /\ client._schema_cache[codecCall.subject].subject = codecCall.subject
       /\ codecCall.id \in DOMAIN client._id_cache
       /\ client._id_cache[codecCall.id] = codecCall.schema
       /\ \A mode \in ClientRegistryModes :
             /\ Client_get_latest_schema(client, regVersions, regIds, mode,
                                         codecCall.subject).reqs = 0
             /\ Client_get_latest_schema(client, regVersions, regIds, mode,
                                         codecCall.subject).meta.schema_id = codecCall.id
             /\ Client_get_schema_by_id(client, regVersions, regIds, mode,
                                        codecCall.id).reqs = 0
             /\ Client_get_schema_by_id(client, regVersions, regIds, mode,
                                        codecCall.id).schema = codecCall.schema

\* register_schema succeeded for a subject and an ID the client had not
\* cached.
C15_Witness ==
    /\ codecCall.op = "register_schema"
    /\ codecCall.exc = "None"
    /\ codecCall.reqs = 1
    /\ codecCall.id = 16909060
    /\ codecCall.subject \notin DOMAIN codecCall.clientBefore._schema_cache
    /\ codecCall.id \notin DOMAIN codecCall.clientBefore._id_cache

\* C16: register_schema returns the ID on every 2xx answer; on a non-2xx
\* answer it raises an error carrying the HTTP status and the response
\* body, on a transport failure it raises; on failure the subject cache and
\* the ID cache are unchanged.
C16_RegisterOutcome ==
    codecCall.op = "register_schema"
    => /\ codecCall.status \in Http2xx
            => codecCall.exc = "None" /\ codecCall.id = RegistryIdFor(codecCall.schema)
       /\ codecCall.status = "non200"
            => /\ codecCall.exc = "Exception"
               /\ SeqContains(codecCall.message, codecCall.status)
               /\ SeqContains(codecCall.message, "body")
       /\ codecCall.status \in {"ClientError", "TimeoutError"}
            => codecCall.exc = codecCall.status
       /\ codecCall.exc # "None"
            => /\ client._schema_cache = codecCall.clientBefore._schema_cache
               /\ client._id_cache = codecCall.clientBefore._id_cache

\* C17: check_compatibility never raises: it returns the registry's verdict
\* on success and False on every transport failure, a timeout included,
\* and on every other status, and leaves the client's caches as they were.
C17_CheckCompatibilityNeverRaises ==
    codecCall.op = "check_compatibility"
    => /\ codecCall.exc = "None"
       /\ codecCall.ret \in BOOLEAN
       /\ codecCall.status # "200" => codecCall.ret = FALSE
       /\ client._schema_cache = codecCall.clientBefore._schema_cache
       /\ client._id_cache = codecCall.clientBefore._id_cache

\* C18: after delete_subject(subject) succeeds the subject is not in the
\* client's subject cache and the next get_latest_schema(subject) issues a
\* request; when delete_subject fails, the caches are unchanged.
C18_DeletePurges ==
    codecCall.op = "delete_subject"
    => /\ codecCall.exc = "None"
            => /\ codecCall.subject \notin DOMAIN client._schema_cache
               /\ \A mode \in ClientRegistryModes :
                     Client_get_latest_schema(client, regVersions, regIds, mode,
                                              codecCall.subject).reqs = 1
       /\ codecCall.exc # "None"
            => /\ client._schema_cache = codecCall.clientBefore._schema_cache
               /\ client._id_cache = codecCall.clientBefore._id_cache

\* delete_subject succeeded for a subject whose metadata the client had
\* cached.
C18_Witness ==
    /\ codecCall.op = "delete_subject"
    /\ codecCall.exc = "None"
    /\ codecCall.subject \in DOMAIN codecCall.clientBefore._schema_cache
    /\ codecCall.subject \notin DOMAIN client._schema_cache

(***************************************************************************)
(* Two coroutines sharing one SchemaRegistryClient on one event loop.  A   *)
(* lookup runs from its call to its first await (the cache check and the   *)
(* request) without interruption, and from the response to its return      *)
(* (the cache write) without interruption; between the two, the other      *)
(* coroutine and the registry's other clients take steps.                  *)
(***************************************************************************)
\* The client without the cache entries a lookup is about: what the part of
\* a lookup after its cache check works on.
ClientPastCacheCheck(cl, subject, schema_id) ==
    [cl EXCEPT !._schema_cache = [s \in (DOMAIN @) \ {subject} |-> @[s]],
               !._id_cache = [i \in (DOMAIN @) \ {schema_id} |-> @[i]]]

\* The state of a coroutine that a lookup with result r has returned to.
TaskDone(task, r) ==
    [task EXCEPT !.pc = "done", !.exc = r.exc, !.meta = r.meta, !.schema = r.schema]

\* get_latest_schema up to its await: a cached subject returns at once,
\* otherwise the session is ensured and the request is sent.
RaceBeginLatest(t, subject) ==
    /\ Idle
    /\ tasks[t].pc = "idle"
    /\ IF subject \in DOMAIN client._schema_cache
       THEN /\ tasks' = [tasks EXCEPT ![t] =
                    TaskDone([NoTask EXCEPT !.op = "get_latest_schema", !.subject = subject],
                             Client_get_latest_schema(client, regVersions, regIds,
                                                      registryMode, subject))]
            /\ UNCHANGED client
       ELSE /\ tasks' = [tasks EXCEPT ![t] =
                    [NoTask EXCEPT !.pc = "awaiting", !.op = "get_latest_schema",
                                   !.subject = subject, !.reqs = 1]]
            /\ client' = Client_ensure_session(client)
    /\ UNCHANGED <<registryVars, serializer, deserializer, pubVars, codecCall, pubCall, listener, appVars>>

\* get_schema_by_id up to its await.
RaceBeginById(t, schema_id) ==
    /\ Idle
    /\ tasks[t].pc = "idle"
    /\ IF schema_id \in DOMAIN client._id_cache
       THEN /\ tasks' = [tasks EXCEPT ![t] =
                    TaskDone([NoTask EXCEPT !.op = "get_schema_by_id", !.idArg = schema_id],
                             Client_get_schema_by_id(client, regVersions, regIds,
                                                     registryMode, schema_id))]
            /\ UNCHANGED client
       ELSE /\ tasks' = [tasks EXCEPT ![t] =
                    [NoTask EXCEPT !.pc = "awaiting", !.op = "get_schema_by_id",
                                   !.idArg = schema_id, !.reqs = 1]]
            /\ client' = Client_ensure_session(client)
    /\ UNCHANGED <<registryVars, serializer, deserializer, pubVars, codecCall, pubCall, listener, appVars>>

\* The registry's answer reaches the coroutine: r is the lookup's result on
\* the client past its cache check.  On status 200 the entry is written to
\* the cache, whatever the cache holds by now; otherwise the lookup raises
\* and the client is as it was.
RaceComplete(t) ==
    /\ Idle
    /\ tasks[t].pc = "awaiting"
    /\ With(IF tasks[t].op = "get_latest_schema"
            THEN Client_get_latest_schema(
                     ClientPastCacheCheck(client, tasks[t].subject, NoneId),
                     regVersions, regIds, registryMode, tasks[t].subject)
            ELSE Client_get_schema_by_id(
                     ClientPastCacheCheck(client, None, tasks[t].idArg),
                     regVersions, regIds, registryMode, tasks[t].idArg),
            LAMBDA r :
          /\ tasks' = [tasks EXCEPT ![t] = TaskDone(@, r)]
          /\ client' =
                IF r.exc # "None" THEN client
                ELSE [client EXCEPT
                        !._schema_cache =
                            [s \in (DOMAIN @) \cup DOMAIN r.cl._schema_cache |->
                                IF s \in DOMAIN r.cl._schema_cache
                                THEN r.cl._schema_cache[s] ELSE @[s]],
                        !._id_cache =
                            [i \in (DOMAIN @) \cup DOMAIN r.cl._id_cache |->
                                IF i \in DOMAIN r.cl._id_cache
                                THEN r.cl._id_cache[i] ELSE @[i]]])
    /\ UNCHANGED <<registryVars, serializer, deserializer, pubVars, codecCall, pubCall, listener, appVars>>

\* Both callers have their results and go on.
RaceReturn ==
    /\ \A t \in RaceTasks : tasks[t].pc = "done"
    /\ tasks' = NoTasks
    /\ UNCHANGED <<registryVars, codecVars, pubVars, codecCall, pubCall, listener, appVars>>

RaceNext ==
    \/ \E mode \in CodecRegistryModes : EnvRegistryMode(mode)
    \/ \E schema \in Schemas : EnvRegister(CodecSubject, schema)
    \/ \E t \in RaceTasks : RaceBeginLatest(t, CodecSubject)
    \/ \E t \in RaceTasks, schema_id \in ClientIds : RaceBeginById(t, schema_id)
    \/ \E t \in RaceTasks : RaceComplete(t)
    \/ RaceReturn

SpecRace == Init /\ [][RaceNext]_vars

\* Both coroutines looked the same uncached key up, each with a request of
\* its own, and both have returned.
RacedLookups ==
    /\ \A t \in RaceTasks : tasks[t].pc = "done" /\ tasks[t].reqs = 1
    /\ tasks[1].op = tasks[2].op
    /\ tasks[1].subject = tasks[2].subject
    /\ tasks[1].idArg = tasks[2].idArg

\* C19: when two lookups of the same uncached subject, or of the same
\* uncached ID, run concurrently on one client, both callers receive the
\* same answer in every interleaving and the cache ends holding that
\* answer.
C19_RaceSameAnswer ==
    RacedLookups
    => /\ tasks[1].exc = tasks[2].exc
       /\ tasks[1].meta = tasks[2].meta
       /\ tasks[1].schema = tasks[2].schema
       /\ (tasks[1].op = "get_latest_schema" /\ tasks[1].exc = "None")
            => client._schema_cache[tasks[1].subject] = tasks[1].meta
       /\ (tasks[1].op = "get_schema_by_id" /\ tasks[1].exc = "None")
            => client._id_cache[tasks[1].idArg] = tasks[1].schema

(***************************************************************************)
(* Listener steps.  The listener's registry client and decoder are client  *)
(* and deserializer.  consume() runs as a task: between its steps the      *)
(* registry and the broker change, and start(), close() and the            *)
(* cancellation of the task happen.                                        *)
(***************************************************************************)
\* The values of the messages on the topic: an envelope, a null value, an
\* empty value and an envelope with another magic byte.
ListenerBuffers ==
    {Buffer(EnvelopeV1), NoneBuffer, Buffer(<< >>), Buffer(<<1>> \o Tail(EnvelopeV1))}

Inboxes == UNION {[1..n -> ListenerBuffers] : n \in 0..MaxInbox}

\* A listener on a topic that holds one message.
ListenerInit ==
    /\ RegistryInit
    /\ CodecInit
    /\ PublisherInit
    /\ listener \in {NewListener(<<b>>) : b \in ListenerBuffers}
    /\ AppInit

\* A listener, with a handler set or without, on a topic that holds any of
\* the message sequences.
ConsumeInit ==
    /\ RegistryInit
    /\ CodecInit
    /\ PublisherInit
    /\ listener \in {[NewListener(inbox) EXCEPT !._message_handler = h] :
                          inbox \in Inboxes, h \in BOOLEAN}
    /\ AppInit

\* Apply a start(), a close() or a step of consume(): l is the listener
\* after it, cl and des the registry client and the decoder after it.
ListenerStep(op, l, cl, des) ==
    /\ Idle
    /\ Len(l.consumers) <= MaxConsumers
    /\ listener' = [l EXCEPT !.op = op, !.startedBefore = listener._started]
    /\ client' = IF l.made # listener.made THEN NewClient ELSE cl
    /\ deserializer' = IF l.made # listener.made THEN NewDeserializer ELSE des
    /\ UNCHANGED <<registryVars, serializer, pubVars, callVars, appVars>>

ListenerSetHandler ==
    /\ ~listener._message_handler
    /\ listener.pc = "idle"
    /\ ListenerStep("set_message_handler", [listener EXCEPT !._message_handler = TRUE],
                    client, deserializer)

ListenerStart ==
    ListenerStep("start", Listener_start(listener, brokerUp), client, deserializer)

ListenerClose(stopOk) ==
    ListenerStep("close", Listener_close(listener, stopOk),
                 IF listener._schema_registry THEN Client_close(client) ELSE client,
                 deserializer)

ListenerConsume ==
    /\ listener.pc = "idle"
    /\ ListenerStep("consume", Listener_consume_begin(listener, brokerUp), client, deserializer)

\* The consumer hands the loop the next message of the topic.
ListenerReceive ==
    /\ listener.pc = "receiving"
    /\ listener.consumers[listener.iter] = "started"
    /\ brokerUp
    /\ listener.offset < Len(listener.inbox)
    /\ With(Deserializer_deserialize(deserializer, client, regVersions, regIds, registryMode,
                                     listener.inbox[listener.offset + 1]),
            LAMBDA r : ListenerStep("receive", Listener_consume_message(listener, r),
                                    r.cl, r.obj))

\* Receiving from an unreachable broker raises a broker error.
ListenerReceiveError ==
    /\ listener.pc = "receiving"
    /\ listener.consumers[listener.iter] = "started"
    /\ ~brokerUp
    /\ ListenerStep("receive", Listener_receive_error(listener, "KafkaError"),
                    client, deserializer)

\* The consumer was stopped while the loop was receiving: the iteration
\* ends and consume() returns.
ListenerReceiveStopped ==
    /\ listener.pc = "receiving"
    /\ listener.consumers[listener.iter] # "started"
    /\ ListenerStep("receive", [listener EXCEPT !.pc = "returned"], client, deserializer)

ListenerHandlerDone(outcome) ==
    /\ listener.pc = "handling"
    /\ ListenerStep("handler", Listener_handler_done(listener, outcome), client, deserializer)

ListenerCancel ==
    /\ listener.pc \in {"receiving", "handling"}
    /\ ListenerStep("cancel", Listener_cancelled(listener), client, deserializer)

\* The caller of consume() takes its outcome.
ListenerConsumeEnds ==
    /\ listener.pc \in {"raised", "returned", "cancelled"}
    /\ ListenerStep("consume_ends", [listener EXCEPT !.pc = "idle", !.exc = "None"],
                    client, deserializer)

ListenerNext ==
    \/ \E mode \in CodecRegistryModes : EnvRegistryMode(mode)
    \/ EnvRegister(CodecSubject, "FeedV1")
    \/ EnvBroker
    \/ ListenerSetHandler
    \/ ListenerStart
    \/ \E stopOk \in BOOLEAN : ListenerClose(stopOk)
    \/ ListenerConsume
    \/ ListenerReceive
    \/ ListenerReceiveError
    \/ ListenerReceiveStopped
    \/ \E outcome \in {"return", "raise"} : ListenerHandlerDone(outcome)
    \/ ListenerCancel
    \/ ListenerConsumeEnds

SpecListener == ListenerInit /\ [][ListenerNext]_vars

\* One listener that is started by consume() and never closed.
ConsumeNext ==
    \/ \E mode \in CodecRegistryModes : EnvRegistryMode(mode)
    \/ EnvRegister(CodecSubject, "FeedV1")
    \/ EnvBroker
    \/ ListenerConsume
    \/ ListenerReceive
    \/ ListenerReceiveError
    \/ \E outcome \in {"return", "raise"} : ListenerHandlerDone(outcome)
    \/ ListenerCancel
    \/ ListenerConsumeEnds

SpecConsume == ConsumeInit /\ [][ConsumeNext]_vars

\* A message whose value is null or has no bytes.
Tombstone(b) == b.none \/ Len(b.bytes) = 0

\* The offsets of the messages received so far whose decode raised nothing,
\* in delivery order.
DecodedOffsets(l) ==
    SelectSeq([k \in 1..Len(l.decoded) |-> k], LAMBDA k : l.decoded[k] = "None")

\* C22: whatever messages the topic holds, the handler has been handed
\* exactly the received messages that decoded, once each and in delivery
\* order (none when no handler is set), never a message whose first byte
\* is not the magic byte, and consume() is left by no exception of a decode.
C22_HandlerOncePerDecoded ==
    /\ Len(listener.decoded) = listener.offset
    /\ listener.dispatched =
           IF listener._message_handler THEN DecodedOffsets(listener) ELSE << >>
    /\ \A k \in 1..listener.offset :
           (~Tombstone(listener.inbox[k]) /\ listener.inbox[k].bytes[1] # 0)
               => /\ listener.decoded[k] # "None"
                  /\ \A i \in DOMAIN listener.dispatched : listener.dispatched[i] # k
    /\ listener.pc = "raised" => listener.exc \in {"KafkaError", "KafkaConnectionError"}

\* [valid, bad magic byte, valid] was consumed: the handler ran for the
\* first and the third message and consume() is still receiving.
C22_Witness ==
    /\ listener.inbox = <<Buffer(EnvelopeV1), Buffer(<<1>> \o Tail(EnvelopeV1)), Buffer(EnvelopeV1)>>
    /\ listener._message_handler
    /\ listener.offset = 3
    /\ listener.decoded[2] # "None"
    /\ listener.dispatched = <<1, 3>>
    /\ Len(listener.finished) = 2
    /\ listener.pc = "receiving"

\* C23: a handler that raises for a message leaves consume() receiving,
\* with nothing raised and the message not handed to the handler again; no
\* message is dispatched twice, and every message received after it that
\* decodes is dispatched.
C23_HandlerFailureSkips ==
    /\ [](/\ \A i, j \in DOMAIN listener.dispatched :
                 i < j => listener.dispatched[i] < listener.dispatched[j]
          /\ \A i \in DOMAIN listener.finished :
                 listener.finished[i].outcome = "raise"
                     => \A k \in (listener.finished[i].offset + 1)..listener.offset :
                            listener.decoded[k] = "None"
                                => \E j \in DOMAIN listener.dispatched :
                                       listener.dispatched[j] = k)
    /\ [][(/\ listener.pc = "handling"
           /\ Len(listener'.finished) = Len(listener.finished) + 1
           /\ listener'.finished[Len(listener'.finished)].outcome = "raise")
              => /\ listener'.pc = "receiving"
                 /\ listener'.exc = "None"
                 /\ listener'.offset = listener.offset
                 /\ listener'.dispatched = listener.dispatched]_vars

\* The handler raised for the first message and the second one was
\* decoded and handed to it.
C23_Witness ==
    /\ Len(listener.finished) >= 1
    /\ listener.finished[1] = [offset |-> 1, outcome |-> "raise"]
    /\ listener.decoded = <<"None", "None">>
    /\ listener.dispatched = <<1, 2>>

\* C24: when the loop receives from a started consumer and the broker is
\* unreachable, consume() is left by the broker's error with no message
\* taken; once consume() was left by an exception, nothing more is decoded
\* or dispatched until consume() is called again.
C24_BrokerErrorEndsLoop ==
    [][/\ (/\ listener.pc = "receiving"
           /\ listener.consumers[listener.iter] = "started"
           /\ ~brokerUp
           /\ listener' # listener
           /\ listener'.op = "receive")
              => /\ listener'.pc = "raised"
                 /\ listener'.exc = "KafkaError"
                 /\ listener'.offset = listener.offset
       /\ listener.pc = "raised"
              => /\ listener'.pc \in {"raised", "idle"}
                 /\ listener'.offset = listener.offset
                 /\ listener'.decoded = listener.decoded
                 /\ listener'.dispatched = listener.dispatched
                 /\ listener'.finished = listener.finished]_vars

\* The broker failed after the first of three messages was handled: the
\* other two were not received.
C24_Witness ==
    /\ listener.pc = "raised"
    /\ listener.exc = "KafkaError"
    /\ listener.op = "receive"
    /\ Len(listener.inbox) = 3
    /\ listener.offset = 1
    /\ listener.dispatched = <<1>>
    /\ Len(listener.finished) = 1

\* C29: every handler call that was begun ran to its return or its raise,
\* also when the task was cancelled meanwhile, and a cancelled consume() is
\* left by CancelledError with no handler call left unfinished.
C29_HandlerCompletesBeforeCancel ==
    /\ \A i \in DOMAIN listener.finished :
           listener.finished[i].outcome \in {"return", "raise"}
    /\ listener.pc = "cancelled"
           => /\ listener.exc = "CancelledError"
              /\ Len(listener.finished) = Len(listener.dispatched)

\* C25: start() on a started listener creates no consumer, client or
\* decoder and leaves the listener as it was; consume() on a listener that
\* is not started performs start() first and takes no message in that step,
\* and a message is only ever received from a consumer that has started;
\* close() leaves the listener stopped.
C25_ListenerLifecycle ==
    [][listener' # listener
          => /\ (listener'.op = "start" /\ listener._started)
                    => /\ listener' = [listener EXCEPT !.op = "start", !.startedBefore = TRUE,
                                                       !.exc = "None"]
                       /\ client' = client
                       /\ deserializer' = deserializer
             /\ (listener'.op = "consume" /\ ~listener._started)
                    => /\ listener'.made = listener.made + 1
                       /\ Len(listener'.consumers) = Len(listener.consumers) + 1
                       /\ listener'.offset = listener.offset
                       /\ listener'.decoded = listener.decoded
                       /\ IF listener'._started
                          THEN /\ listener'.pc = "receiving"
                               /\ listener'.consumers[listener'.iter] = "started"
                          ELSE /\ listener'.pc = "raised"
                               /\ listener'.exc # "None"
             /\ listener'.offset # listener.offset
                    => /\ listener.pc = "receiving"
                       /\ listener.consumers[listener.iter] = "started"
             /\ listener'.op = "close" => ~listener'._started]_vars

\* start() was called on a started listener whose consume() is receiving.
C25_Witness ==
    /\ listener.op = "start"
    /\ listener.startedBefore
    /\ listener._started
    /\ listener.made = 1
    /\ listener.consumers = <<"started">>
    /\ listener.pc = "receiving"

C32_SerialProcessing ==
    /\ [](/\ Len(listener.dispatched) - Len(listener.finished) \in {0, 1}
          /\ listener.pc = "handling"
                 <=> Len(listener.dispatched) = Len(listener.finished) + 1)
    /\ [][listener'.offset # listener.offset
              => /\ listener.pc = "receiving"
                 /\ Len(listener.finished) = Len(listener.dispatched)]_vars

\* The handler of the second message runs after the handler of the first
\* one has ended.
C32_Witness ==
    /\ listener.offset = 2
    /\ listener.dispatched = <<1, 2>>
    /\ Len(listener.finished) = 1
    /\ listener.finished[1].outcome \in {"return", "raise"}
    /\ listener.pc = "handling"

\* C37: every message received whose value is null or empty decodes
\* without error and, when a handler is set, is handed to it as None (and
\* only such messages are); a handler that raises on it leaves consume()
\* receiving with nothing raised.
C37_TombstoneDispatched ==
    /\ [](/\ Len(listener.handed) = Len(listener.dispatched)
          /\ \A i \in DOMAIN listener.dispatched :
                 listener.handed[i] = "null"
                     <=> Tombstone(listener.inbox[listener.dispatched[i]])
          /\ \A k \in 1..listener.offset :
                 Tombstone(listener.inbox[k])
                     => /\ listener.decoded[k] = "None"
                        /\ listener._message_handler
                               => \E i \in DOMAIN listener.dispatched :
                                      listener.dispatched[i] = k)
    /\ [][(/\ listener.pc = "handling"
           /\ Tombstone(listener.inbox[listener.offset])
           /\ Len(listener'.finished) = Len(listener.finished) + 1
           /\ listener'.finished[Len(listener'.finished)].outcome = "raise")
              => /\ listener'.pc = "receiving"
                 /\ listener'.exc = "None"]_vars

\* A null value and an empty value were handed to the handler as None, the
\* handler raised on the first, and the envelope after them was handed on.
C37_Witness ==
    /\ listener.inbox = <<NoneBuffer, Buffer(<< >>), Buffer(EnvelopeV1)>>
    /\ listener.dispatched = <<1, 2, 3>>
    /\ listener.handed = <<"null", "null", "record">>
    /\ Len(listener.finished) >= 1
    /\ listener.finished[1] = [offset |-> 1, outcome |-> "raise"]

\* C33: an entry of the listener's decoder cache is kept, unchanged, by
\* every step: decode, close() and start() never remove or replace it.
C33_CacheNeverEvicted ==
    [][\A id \in DOMAIN deserializer._schema_cache :
           /\ id \in DOMAIN deserializer'._schema_cache
           /\ deserializer'._schema_cache[id] = deserializer._schema_cache[id]]_vars

(***************************************************************************)
(* Publisher steps                                                         *)
(***************************************************************************)
World == [pub |-> publisher, prods |-> producers, versions |-> regVersions, ids |-> regIds,
          log |-> topicLog]

\* Apply the result r of a publisher call; call holds its arguments.
PublisherStep(call, r) ==
    /\ Idle
    /\ Len(r.w.prods) <= MaxProducers
    /\ Len(r.w.log) <= MaxLog
    /\ publisher' = r.w.pub
    /\ producers' = r.w.prods
    /\ regVersions' = r.w.versions
    /\ regIds' = r.w.ids
    /\ topicLog' = r.w.log
    /\ pubCall' = [call EXCEPT !.ret = r.ret, !.exc = r.exc, !.caught = r.caught,
                               !.subject = r.subject, !.id = r.id, !.reqs = r.reqs,
                               !.connects = r.connects, !.sends = r.sends,
                               !.startedBefore = publisher._started,
                               !.cachedBefore =
                                   (\E s \in DOMAIN publisher._serializers :
                                       s = Publisher_get_subject(publisher, call.topic,
                                                                 call.subjectArg)),
                               !.logBefore = topicLog]
    /\ UNCHANGED <<registryMode, brokerUp, codecVars, codecCall, tasks, listener, appVars>>

PubStart ==
    PublisherStep([NoPubCall EXCEPT !.op = "start"], Publisher_start(World, brokerUp))

PubClose(stopOk, closeOk) ==
    PublisherStep([NoPubCall EXCEPT !.op = "close"], Publisher_close(World, stopOk, closeOk))

PubRegisterSchema(topic, schema, subject) ==
    PublisherStep([NoPubCall EXCEPT !.op = "register_schema", !.topic = topic,
                                    !.schemaArg = schema, !.subjectArg = subject],
                  Publisher_register_schema(World, brokerUp, registryMode, topic, schema, subject))

PubPublish(topic, message, key, schema, subject, sendOutcome) ==
    PublisherStep([NoPubCall EXCEPT !.op = "publish", !.topic = topic, !.schemaArg = schema,
                                    !.subjectArg = subject, !.messages = <<message>>,
                                    !.sendOutcome = sendOutcome],
                  Publisher_publish(World, brokerUp, registryMode, sendOutcome, topic, message,
                                    key, schema, subject))

PubPublishBatch(topic, messages, keys, schema, subject, failAt, failKind) ==
    PublisherStep([NoPubCall EXCEPT !.op = "publish_batch", !.topic = topic,
                                    !.schemaArg = schema, !.subjectArg = subject,
                                    !.messages = messages, !.keys = keys,
                                    !.sendOutcome = failKind, !.failAt = failAt],
                  Publisher_publish_batch(World, brokerUp, registryMode, failAt, failKind, topic,
                                          messages, keys, schema, subject))

\* The arguments the publisher is called with.
PubTopic == "memorial-vectorizing-response"
PubMessages ==
    { [memorialId |-> PyInt(300), content |-> PyStr(<<104, 233>>), metadata |-> PyStr(<<107>>)],
      [memorialId |-> PyInt(1)] }
PubSchemas == Schemas \cup {None}
PubSubjects == {None, "explicit-subject"}
PubKeys == {None, "k1"}
PubRegistryModes == {"up", "reject_post", "down"}

Next ==
    \/ \E mode \in PubRegistryModes : EnvRegistryMode(mode)
    \/ EnvBroker
    \/ PubStart
    \/ \E stopOk \in BOOLEAN, closeOk \in BOOLEAN : PubClose(stopOk, closeOk)
    \/ \E schema \in Schemas, subject \in PubSubjects :
            PubRegisterSchema(PubTopic, schema, subject)
    \/ \E message \in PubMessages, key \in PubKeys, schema \in PubSchemas,
          subject \in PubSubjects, sendOutcome \in {"ack", "error"} :
            PubPublish(PubTopic, message, key, schema, subject, sendOutcome)
    \/ CallReturns

Spec == Init /\ [][Next]_vars

(***************************************************************************)
(* Properties of publish, under Spec                                       *)
(***************************************************************************)
\* The subject a publisher call resolves from its arguments.
CallSubject == Publisher_get_subject(publisher, pubCall.topic, pubCall.subjectArg)

\* The topic log is the one before the call and n more messages, all on the
\* topic of the call.
LogGrewBy(n) ==
    /\ Len(topicLog) = Len(pubCall.logBefore) + n
    /\ SubSeq(topicLog, 1, Len(pubCall.logBefore)) = pubCall.logBefore
    /\ \A i \in (Len(pubCall.logBefore) + 1)..Len(topicLog) : topicLog[i].topic = pubCall.topic

\* C27: start() on a started publisher creates no producer and no registry
\* client, connects to nothing, raises nothing and leaves the publisher,
\* its serializer cache included, as it was; and a publisher call that
\* issued a registry request or a send did so on a started publisher whose
\* producer is started and whose registry client exists.
C27_StartIdempotent ==
    [][/\ (publisher._started /\ pubCall'.op = "start")
          => /\ publisher' = publisher
             /\ producers' = producers
             /\ pubCall'.connects = 0
             /\ pubCall'.exc = "None"
       /\ (/\ pubCall'.op \in {"publish", "publish_batch", "register_schema"}
           /\ (pubCall'.reqs > 0 \/ pubCall'.sends > 0))
          => /\ publisher'._started
             /\ publisher'._producer \in 1..Len(producers')
             /\ producers'[publisher'._producer] = "started"
             /\ publisher'._schema_registry.session # "absent"]_vars

\* start() returned on a started publisher that holds a serializer, without
\* connecting.
C27_Witness ==
    /\ pubCall.op = "start"
    /\ pubCall.startedBefore
    /\ pubCall.connects = 0
    /\ publisher._started
    /\ publisher._serializers # << >>

\* C28: after close() returns, every producer the publisher created is
\* stopped, the registry client is closed, the publisher is not started
\* and its serializer cache is empty.
C28_CloseReleasesAll ==
    pubCall.op = "close"
    => /\ pubCall.exc = "None"
       /\ ~publisher._started
       /\ publisher._serializers = << >>
       /\ \A i \in 1..Len(producers) : producers[i] = "stopped"
       /\ publisher._schema_registry.session # "open"

\* C30 for the publisher: with the registry or the broker unreachable or
\* rejecting, start() on a publisher that is not started raises.
C30_StartFailsFast ==
    (/\ pubCall.op = "start"
     /\ ~pubCall.startedBefore
     /\ (registryMode # "up" \/ ~brokerUp))
    => pubCall.exc # "None"

\* C34: a subject the publisher holds a serializer for keeps it, with the
\* schema first cached, through every later call.
C34_SerializerCacheKept ==
    [][\A s \in DOMAIN publisher._serializers :
           /\ s \in DOMAIN publisher'._serializers
           /\ publisher'._serializers[s].schema_str = publisher._serializers[s].schema_str]_vars

C1_PublishWithSchema ==
    (/\ pubCall.op = "publish"
     /\ pubCall.schemaArg # None
     /\ ~pubCall.cachedBefore
     /\ registryMode = "up"
     /\ brokerUp
     /\ pubCall.sendOutcome = "ack"
     /\ AvroValidate(AvroParse(pubCall.schemaArg), pubCall.messages[1]))
    => /\ pubCall.ret = "True"
       /\ SeqContains(regVersions[CallSubject], RegistryIdFor(pubCall.schemaArg))
       /\ pubCall.sends = 1
       /\ LogGrewBy(1)
       /\ topicLog[Len(topicLog)].value
            = ProducedEnvelope(pubCall.schemaArg, pubCall.messages[1])

\* C2: whenever a broker-level failure occurs while publish is served, the
\* failure to connect of a lazy start included, publish returns False and
\* no exception escapes.
C2_BrokerFailureReturnsFalse ==
    (/\ pubCall.op = "publish"
     /\ \/ pubCall.exc \in {"KafkaError", "KafkaConnectionError"}
        \/ pubCall.caught \in {"KafkaError", "KafkaConnectionError"})
    => /\ pubCall.ret = "False"
       /\ pubCall.exc = "None"

C4_MissingSchemaRaises ==
    (/\ pubCall.op = "publish"
     /\ pubCall.schemaArg = None
     /\ ~pubCall.cachedBefore
     /\ regVersions[CallSubject] = << >>)
    => /\ pubCall.ret = "raise"
       /\ pubCall.exc # "None"
       /\ pubCall.sends = 0
       /\ topicLog = pubCall.logBefore

(***************************************************************************)
(* Batches: publish_batch on one topic, with every batch of up to MaxBatch *)
(* messages, the keys lists that fit and that do not, and every send or    *)
(* acknowledgment that can fail.                                           *)
(***************************************************************************)
Batches == UNION {[1..n -> PubMessages] : n \in 0..MaxBatch}

BatchKeys(messages) ==
    {NoKeys, Keys(<< >>), Keys([i \in 1..Len(messages) |-> "k1"]),
     Keys([i \in 1..(Len(messages) + 1) |-> "k1"])}

BatchNext ==
    \/ \E mode \in CodecRegistryModes : EnvRegistryMode(mode)
    \/ EnvBroker
    \/ PubStart
    \/ PubClose(TRUE, TRUE)
    \/ \E messages \in Batches, schema \in {None, "FeedV1"} :
          \E keys \in BatchKeys(messages), failAt \in 0..Len(messages), failKind \in {"send", "ack"} :
            PubPublishBatch(PubTopic, messages, keys, schema, None, failAt, failKind)
    \/ CallReturns

SpecBatch == Init /\ [][BatchNext]_vars

(***************************************************************************)
(* Properties of publish_batch, under SpecBatch                            *)
(***************************************************************************)
\* C6: publish_batch with a keys list, an empty one included, whose length
\* is not the number of messages returns False and makes no network call:
\* no broker connection, no send, no registry request, whether the
\* publisher was started or not.
C6_KeysMismatchFailsFast ==
    (/\ pubCall.op = "publish_batch"
     /\ ~pubCall.keys.none
     /\ Len(pubCall.keys.list) # Len(pubCall.messages))
    => /\ pubCall.ret = "False"
       /\ pubCall.exc = "None"
       /\ pubCall.connects = 0
       /\ pubCall.sends = 0
       /\ pubCall.reqs = 0

SubjectArgs == {None, "", "explicit-subject"}

SubjectMessage ==
    [memorialId |-> PyInt(300), content |-> PyStr(<<104, 233>>), metadata |-> PyStr(<<107>>)]

SubjectInit ==
    /\ RegistryInit
    /\ CodecInit
    /\ brokerUp = TRUE
    /\ topicLog = << >>
    /\ producers = << >>
    /\ publisher \in {NewPublisher(d) : d \in DefaultSubjects}
    /\ pubCall = NoPubCall
    /\ listener = NewListener(<< >>)
    /\ AppInit

SubjectNext ==
    \/ \E topic \in Topics, subject \in SubjectArgs :
            PubRegisterSchema(topic, "FeedV1", subject)
    \/ \E topic \in Topics, subject \in SubjectArgs :
            PubPublish(topic, SubjectMessage, None, "FeedV1", subject, "ack")
    \/ \E topic \in Topics, subject \in SubjectArgs :
            PubPublishBatch(topic, <<SubjectMessage>>, NoKeys, "FeedV1", subject, 0, "send")
    \/ PubClose(TRUE, TRUE)
    \/ CallReturns

SpecSubject == SubjectInit /\ [][SubjectNext]_vars

(***************************************************************************)
(* Properties of the subject resolution, under SpecSubject                 *)
(***************************************************************************)
\* C5: the subject publish, publish_batch and register_schema work on is
\* the subject argument when one is given (None and the empty string are
\* none), else the configured default subject when one is configured, else
\* "{topic}-value"; "memorial-vectorizing-response" with no subject and no
\* default gives "memorial-vectorizing-response-value".  The subject is the
\* one the schema is registered under and the serializer is cached for.
C5_SubjectPrecedence ==
    pubCall.op \in {"publish", "publish_batch", "register_schema"}
    => /\ pubCall.subject =
            (CASE pubCall.subjectArg \notin {None, ""} -> pubCall.subjectArg
               [] pubCall.subjectArg \in {None, ""}
                    /\ publisher.default_subject \notin {None, ""} -> publisher.default_subject
               [] OTHER -> pubCall.topic \o "-value")
       /\ (/\ pubCall.topic = "memorial-vectorizing-response"
            /\ pubCall.subjectArg = None
            /\ publisher.default_subject = None)
            => pubCall.subject = "memorial-vectorizing-response-value"
       /\ regVersions[pubCall.subject] # << >>
       /\ pubCall.subject \in DOMAIN publisher._serializers

\* register_schema with a subject argument, on a publisher with a default
\* subject, registered the schema under the argument and not under the
\* default.
C5_Witness ==
    /\ pubCall.op = "register_schema"
    /\ pubCall.subjectArg = "explicit-subject"
    /\ publisher.default_subject = "default-subject"
    /\ pubCall.subject = "explicit-subject"
    /\ regVersions["explicit-subject"] # << >>
    /\ regVersions["default-subject"] = << >>

(***************************************************************************)
(* Concurrent first calls.  Two coroutines call publish, publish_batch or  *)
(* register_schema on one publisher; each call begins with                 *)
(* _ensure_started, and start() is suspended at await                      *)
(* self._producer.start(), where the other coroutine runs.                 *)
(***************************************************************************)
LazyOps == {"publish", "publish_batch", "register_schema"}

\* _ensure_started and start() up to the await: a started publisher goes
\* on with its call; otherwise a registry client and a producer are built
\* and assigned, and the producer's start() is awaited.
LazyBegin(t, op) ==
    /\ Idle
    /\ tasks[t].pc = "idle"
    /\ IF publisher._started
       THEN /\ tasks' = [tasks EXCEPT ![t] = [NoTask EXCEPT !.pc = "done", !.op = op]]
            /\ UNCHANGED <<publisher, producers>>
       ELSE /\ Len(producers) < MaxProducers
            /\ publisher' = [publisher EXCEPT !._schema_registry = NewClient,
                                               !._producer = Len(producers) + 1]
            /\ producers' = Append(producers, "created")
            /\ tasks' = [tasks EXCEPT ![t] =
                             [NoTask EXCEPT !.pc = "connecting", !.op = op,
                                            !.producer = Len(producers) + 1]]
    /\ UNCHANGED <<registryVars, codecVars, brokerUp, topicLog, codecCall, pubCall, listener, appVars>>

\* The awaited producer.start() ends: the producer this coroutine built is
\* started and _started is set, or the connection error leaves start().
LazyConnected(t) ==
    /\ Idle
    /\ tasks[t].pc = "connecting"
    /\ IF brokerUp
       THEN /\ producers' = [producers EXCEPT ![tasks[t].producer] = "started"]
            /\ publisher' = [publisher EXCEPT !._started = TRUE]
            /\ tasks' = [tasks EXCEPT ![t].pc = "done"]
       ELSE /\ tasks' = [tasks EXCEPT ![t].pc = "done", ![t].exc = "KafkaConnectionError"]
            /\ UNCHANGED <<publisher, producers>>
    /\ UNCHANGED <<registryVars, codecVars, brokerUp, topicLog, codecCall, pubCall, listener, appVars>>

\* Both calls are over.
LazyReturn ==
    /\ \A t \in RaceTasks : tasks[t].pc = "done"
    /\ tasks' = NoTasks
    /\ UNCHANGED <<registryVars, codecVars, pubVars, codecCall, pubCall, listener, appVars>>

LazyNext ==
    \/ EnvBroker
    \/ \E t \in RaceTasks, op \in LazyOps : LazyBegin(t, op)
    \/ \E t \in RaceTasks : LazyConnected(t)
    \/ LazyReturn
    \/ \E stopOk \in BOOLEAN : PubClose(stopOk, TRUE)
    \/ CallReturns

SpecLazyStart == Init /\ [][LazyNext]_vars

\* C31: whatever way the first calls of two coroutines interleave, at most
\* one producer is started and not stopped, and it is the one the publisher
\* holds.
C31_OneProducerStarted ==
    \A i \in 1..Len(producers) :
        producers[i] = "started" => i = publisher._producer

(***************************************************************************)
(* Service steps: process_memorial calls on one service, whose publisher   *)
(* starts lazily, with the registry and the broker changing in between.    *)
(***************************************************************************)
\* The memorial_data of the requests: a complete one, one without content
\* and one whose characterId is 0.
ServiceRequests ==
    { [memorialId |-> PyInt(300), content |-> PyStr(<<104, 233>>), characterId |-> PyInt(7)],
      [memorialId |-> PyInt(1), content |-> PyStr(<<97>>), characterId |-> PyInt(7)],
      [memorialId |-> PyInt(300), characterId |-> PyInt(7)],
      [memorialId |-> PyInt(1), content |-> PyStr(<<97>>), characterId |-> PyInt(0)] }

ServiceProcess(data, ext, sendOutcome) ==
    /\ Idle
    /\ With(Service_process_memorial(World, service.vectors, brokerUp, registryMode,
                                     sendOutcome, data, ext), LAMBDA r :
          /\ Len(r.w.prods) <= MaxProducers
          /\ Len(r.w.log) <= MaxLog
          /\ publisher' = r.w.pub
          /\ producers' = r.w.prods
          /\ regVersions' = r.w.versions
          /\ regIds' = r.w.ids
          /\ topicLog' = r.w.log
          /\ service' = [vectors |-> r.vectors,
                         call |-> [op |-> "process_memorial", data |-> data, ext |-> ext,
                                   up |-> brokerUp, mode |-> registryMode,
                                   sendOutcome |-> sendOutcome,
                                   ret |-> r.ret, exc |-> r.exc, upserted |-> r.upserted,
                                   publishRet |-> r.publishRet,
                                   published |-> r.w.log # topicLog]])
    /\ UNCHANGED <<registryMode, brokerUp, codecVars, callVars, listener, app>>

ServiceNext ==
    \/ \E mode \in PubRegistryModes : EnvRegistryMode(mode)
    \/ EnvBroker
    \/ \E data \in ServiceRequests, ext \in [fetch : BOOLEAN, embed : BOOLEAN, upsert : BOOLEAN],
          sendOutcome \in {"ack", "error"} :
            ServiceProcess(data, ext, sendOutcome)

SpecService == Init /\ [][ServiceNext]_vars

\* C39: the response event reaches the topic only in a call whose upsert
\* succeeded; a complete request whose character fetch, embedding and
\* upsert succeed, with the registry up and the broker acknowledging,
\* returns True; and a publish that reports False raises
\* PublisherException with the vector stored.
C39_ProcessMemorial ==
    service.call.op = "process_memorial"
    => /\ service.call.published => service.call.upserted
       /\ (/\ ~PyFalsy(DictGet(service.call.data, "content", PyNone))
           /\ ~PyFalsy(service.call.data.characterId)
           /\ service.call.ext = [fetch |-> TRUE, embed |-> TRUE, upsert |-> TRUE]
           /\ service.call.up
           /\ service.call.mode = "up"
           /\ service.call.sendOutcome = "ack")
              => service.call.ret = "True"
       /\ service.call.publishRet = "False"
              => /\ service.call.exc = "PublisherException"
                 /\ service.call.data.memorialId.n \in service.vectors

(***************************************************************************)
(* Application steps: the two listener tasks run, the broker comes and     *)
(* goes, and lifespan leaves its yield and runs its shutdown part.         *)
(***************************************************************************)
AppUnchanged ==
    UNCHANGED <<registryVars, codecVars, topicLog, producers, publisher, callVars,
                listener, service>>

\* The event loop runs task i for the first time.
AppTaskStart(i) ==
    /\ app.task[i] = "pending"
    /\ app' = App_start_listener(app, i, brokerUp)
    /\ UNCHANGED brokerUp
    /\ AppUnchanged

\* The consume loop of task i meets a broker error.
AppTaskBrokerError(i) ==
    /\ app.task[i] = "consuming"
    /\ ~brokerUp
    /\ app' = App_listener_error(app, i)
    /\ UNCHANGED brokerUp
    /\ AppUnchanged

AppEnvBroker ==
    /\ brokerUp' = ~brokerUp
    /\ UNCHANGED app
    /\ AppUnchanged

\* The server stops: lifespan resumes after its yield.
AppShutdownBegin ==
    /\ app.pc = "running"
    /\ app' = [app EXCEPT !.pc = "stop_listener"]
    /\ UNCHANGED brokerUp
    /\ AppUnchanged

AppStopListener ==
    /\ app.pc = "stop_listener"
    /\ app' = App_stop_listener(app, 1, "stop_delete_listener")
    /\ UNCHANGED brokerUp
    /\ AppUnchanged

AppStopDeleteListener ==
    /\ app.pc = "stop_delete_listener"
    /\ app' = App_stop_listener(app, 2, "close_store_publisher")
    /\ UNCHANGED brokerUp
    /\ AppUnchanged

AppCloseStorePublisher ==
    /\ app.pc = "close_store_publisher"
    /\ app' = App_close_publisher(app, 1, "close_delete_publisher")
    /\ UNCHANGED brokerUp
    /\ AppUnchanged

AppCloseDeletePublisher ==
    /\ app.pc = "close_delete_publisher"
    /\ app' = App_close_publisher(app, 2, "done")
    /\ UNCHANGED brokerUp
    /\ AppUnchanged

AppShutdownStep ==
    \/ AppStopListener
    \/ AppStopDeleteListener
    \/ AppCloseStorePublisher
    \/ AppCloseDeletePublisher

ShutdownNext ==
    \/ \E i \in 1..2 : AppTaskStart(i)
    \/ \E i \in 1..2 : AppTaskBrokerError(i)
    \/ AppEnvBroker
    \/ AppShutdownBegin
    \/ AppShutdownStep

\* Once lifespan is past its yield, each of its awaits returns or raises.
SpecShutdown == Init /\ [][ShutdownNext]_vars /\ WF_vars(AppShutdownStep)

\* C38: a shutdown that has begun ends with both listeners that exist
\* closed and both publishers closed, and a publisher is closed only when
\* both listener tasks have ended.
C38_ShutdownCompletes ==
    /\ app.pc = "stop_listener"
           ~> (/\ app.pc = "done"
               /\ app.listenerClosed = app.listenerSet
               /\ app.publisherClosed = <<TRUE, TRUE>>)
    /\ [](\A j \in 1..2 : app.publisherClosed[j]
              => \A i \in 1..2 : app.task[i] = "cancelled" \/ TaskFailed(app.task[i]))

====
